---- MODULE Spec2Model ----
(***************************************************************************)
(* Paper-trading simulator: the store (positions, fills, events,           *)
(* settings), the trigger engine's per-tick evaluation, and the position   *)
(* routes (create, manual close, SL/TP edit, delete).                      *)
(*                                                                         *)
(* JavaScript numbers are modelled as exact rationals [n, d] in lowest     *)
(* terms with d > 0; floating-point rounding is not modelled.  Strings     *)
(* that the code inspects (symbols) are sequences of one-character         *)
(* strings.  A nullable column is <<>> (NULL) or <<v>>.                    *)
(***************************************************************************)
EXTENDS Integers, Sequences, FiniteSets, TLC

\* ------------------------------------------------------------------ bounds
\* Rows the positions table may ever hold (caps the AUTOINCREMENT counter).
MaxPositions == 2
MaxSessionPositions == 3
\* Sessions of GET /stream in a run.
MaxClients == 2
\* Firings of one session's heartbeat timer.
MaxBeats == 2
\* Largest value of the millisecond clock Date.now().
MaxTime == 2
\* Mark prices, REST prices and SL/TP levels range over 1..MaxPrice.
MaxPrice == 3
\* Operations (requests, ticks, clock steps) in a run.
MaxSteps == 5
\* Manual close requests that may be suspended on the price fetch at once.
MaxPending == 2

\* --------------------------------------------------------------- rationals
RECURSIVE Gcd(_, _)
Gcd(a, b) == IF b = 0 THEN a ELSE Gcd(b, a % b)

Abs(x) == IF x < 0 THEN -x ELSE x

\* The rational n/d (d # 0) in lowest terms with a positive denominator.
Rat(n, d) ==
  LET g == Gcd(Abs(n), Abs(d))
      s == IF d < 0 THEN -1 ELSE 1
  IN [n |-> (s * n) \div g, d |-> (s * d) \div g]

Num(k) == [n |-> k, d |-> 1]
RAdd(x, y) == Rat(x.n * y.d + y.n * x.d, x.d * y.d)
RSub(x, y) == Rat(x.n * y.d - y.n * x.d, x.d * y.d)
RMul(x, y) == Rat(x.n * y.n, x.d * y.d)
RDiv(x, y) == Rat(x.n * y.d, x.d * y.n)
RLe(x, y) == x.n * y.d <= y.n * x.d
RLt(x, y) == x.n * y.d < y.n * x.d
Zero == Num(0)
\* JavaScript truthiness of a number: 0 is falsy.
Truthy(x) == x.n # 0

\* ---------------------------------------------------------------- nullable
None == <<>>
Some(v) == <<v>>
IsNull(o) == o = <<>>
Val(o) == o[1]

\* ----------------------------------------------------------------- strings
UpperChars == <<"A", "B", "C", "D", "E", "F", "G", "H", "I", "J", "K", "L", "M",
                "N", "O", "P", "Q", "R", "S", "T", "U", "V", "W", "X", "Y", "Z">>
LowerChars == <<"a", "b", "c", "d", "e", "f", "g", "h", "i", "j", "k", "l", "m",
                "n", "o", "p", "q", "r", "s", "t", "u", "v", "w", "x", "y", "z">>
DigitChars == <<"0", "1", "2", "3", "4", "5", "6", "7", "8", "9">>

IndexIn(c, chars) == CHOOSE i \in 1..Len(chars) : chars[i] = c
IsIn(c, chars) == \E i \in 1..Len(chars) : chars[i] = c

\* String.prototype.toUpperCase / toLowerCase, character by character.
toUpperCase(s) ==
  [i \in 1..Len(s) |-> IF IsIn(s[i], LowerChars) THEN UpperChars[IndexIn(s[i], LowerChars)] ELSE s[i]]
toLowerCase(s) ==
  [i \in 1..Len(s) |-> IF IsIn(s[i], UpperChars) THEN LowerChars[IndexIn(s[i], UpperChars)] ELSE s[i]]

endsWith(s, suffix) ==
  /\ Len(suffix) <= Len(s)
  /\ SubSeq(s, Len(s) - Len(suffix) + 1, Len(s)) = suffix

USDT == <<"U", "S", "D", "T">>

\* /^[A-Z0-9]{5,20}$/.test(symbol) && symbol.endsWith('USDT')
isValidSymbolFormat(symbol) ==
  /\ Len(symbol) >= 5
  /\ Len(symbol) <= 20
  /\ \A i \in 1..Len(symbol) : IsIn(symbol[i], UpperChars) \/ IsIn(symbol[i], DigitChars)
  /\ endsWith(symbol, USDT)

BTCUSDT == <<"B", "T", "C", "U", "S", "D", "T">>
btcusdt == <<"b", "t", "c", "u", "s", "d", "t">>
BTC == <<"B", "T", "C">>

\* -------------------------------------------------------------------- calc
calculateNotional(qty, price) == RMul(qty, price)

calculateFee(notional, feeRate) == RMul(notional, feeRate)

\* shouldTriggerSLLong with the comparison turned round.
shouldTriggerSLLongFlipped(markPrice, sl) == IF IsNull(sl) THEN FALSE ELSE RLe(Val(sl), markPrice)
\* shouldTriggerTPLong with a strict comparison.
shouldTriggerTPLongStrict(markPrice, tp) == IF IsNull(tp) THEN FALSE ELSE RLt(Val(tp), markPrice)

shouldTriggerSLLong(markPrice, sl) == IF IsNull(sl) THEN FALSE ELSE RLe(markPrice, Val(sl))
shouldTriggerTPLong(markPrice, tp) == IF IsNull(tp) THEN FALSE ELSE RLe(Val(tp), markPrice)
shouldTriggerSLShort(markPrice, sl) == IF IsNull(sl) THEN FALSE ELSE RLe(Val(sl), markPrice)
shouldTriggerTPShort(markPrice, tp) == IF IsNull(tp) THEN FALSE ELSE RLe(markPrice, Val(tp))

shouldTriggerSL(side, markPrice, sl) ==
  IF side = "LONG" THEN shouldTriggerSLLong(markPrice, sl) ELSE shouldTriggerSLShort(markPrice, sl)

shouldTriggerTP(side, markPrice, tp) ==
  IF side = "LONG" THEN shouldTriggerTPLong(markPrice, tp) ELSE shouldTriggerTPShort(markPrice, tp)

\* ------------------------------------------------------------------- state
VARIABLES
  positions,          \* paper_positions: id -> row
  fills,              \* paper_fills, in rowid order
  events,             \* paper_events, in rowid order
  nextId,             \* AUTOINCREMENT counter of paper_positions
  settings,           \* the single settings row
  now,                \* Date.now()
  engineUp,           \* the TriggerEngine singleton exists and listens to the feed
  priceCache,         \* TriggerEngine.priceCache: upper-case symbol -> mark price
  subscribedSymbols,  \* BinanceWebSocketClient.subscribedSymbols (lower case)
  closing,            \* manual close requests suspended on getCurrentPrice
  ws,                 \* BinanceWebSocketClient.ws: "NULL", or its socket's readyState
  detached,           \* a socket dropped by close() has yet to deliver its close event
  reconnectAttempts,  \* BinanceWebSocketClient.reconnectAttempts
  reconnectTimeout,   \* the pending reconnect timer's delay in ms, or NULL
  isIntentionallyClosed,
  pingInterval,       \* the ping timer is running
  boot,               \* getDb / initializeAppAsync: "idle", "scheduled" or "done"
  clients,            \* GET /stream sessions: the stream's state, the listeners on
                      \* the engine, the heartbeat timer, the frames enqueued
  steps,              \* operations run so far
  last                \* the operation that ran last, and its response

vars == <<positions, fills, events, nextId, settings, now, engineUp, priceCache,
          subscribedSymbols, closing, ws, detached, reconnectAttempts, reconnectTimeout,
          isIntentionallyClosed, pingInterval, boot, clients, steps, last>>

\* The fields of the socket session.
sessionVars == <<ws, detached, reconnectAttempts, reconnectTimeout, isIntentionallyClosed,
                 pingInterval>>

\* The store as one value, so that the queries compose.
Store == [positions |-> positions, fills |-> fills, events |-> events, nextId |-> nextId]

TerminalEvents == {"SL_TRIGGERED", "TP_TRIGGERED", "MANUAL_CLOSE"}

\* ----------------------------------------------------------------- queries
getPositionById(S, id) == IF id \in DOMAIN S.positions THEN Some(S.positions[id]) ELSE None

\* Rows of getPositions('OPEN') that match the symbol.
OpenIdsOf(S, symbol) ==
  {i \in DOMAIN S.positions : S.positions[i].status = "OPEN" /\ S.positions[i].symbol = symbol}

createFill(S, fill) == [S EXCEPT !.fills = Append(@, fill)]

\* The foreign key of paper_events (and paper_fills) rejects an unknown positionId.
createEventThrows(S, ev) == ev.positionId \notin DOMAIN S.positions

createEvent(S, ev) == [S EXCEPT !.events = Append(@, ev)]

\* data.sl || null
OrNull(o) == IF IsNull(o) \/ ~Truthy(Val(o)) THEN None ELSE o

\* The CHECK constraint on side makes the INSERT throw.
createPositionThrows(data) == data.side \notin {"LONG", "SHORT"}

createPosition(S, data, entryPrice, fee, t) ==
  LET positionId == S.nextId
      qty == IF data.sizeMode = "USDT" THEN RDiv(data.sizeValue, entryPrice) ELSE data.sizeValue
      row == [id |-> positionId, symbol |-> data.symbol, side |-> data.side, qty |-> qty,
              entryPrice |-> entryPrice, entryTime |-> t, sl |-> OrNull(data.sl),
              tp |-> OrNull(data.tp), leverage |-> data.leverage, status |-> "OPEN",
              closePrice |-> None, closeTime |-> None, realizedPnl |-> Zero,
              feesOpen |-> fee, feesClose |-> Zero, fundingPnl |-> Zero]
      S1 == [S EXCEPT !.positions = [i \in DOMAIN @ \cup {positionId} |->
                                       IF i = positionId THEN row ELSE @[i]],
                      !.nextId = @ + 1]
      S2 == createFill(S1, [positionId |-> positionId, type |-> "OPEN", price |-> entryPrice,
                            qty |-> qty, fee |-> fee, ts |-> t])
  IN createEvent(S2, [positionId |-> positionId, event |-> "POSITION_CREATED",
                      payload |-> [entryType |-> data.entryType], ts |-> t])

\* RealizedPnl with the LONG formula used for both sides.
RealizedPnlOneSided(position, closePrice, fee) ==
  LET pnl == RMul(RSub(closePrice, position.entryPrice), position.qty)
  IN RSub(RSub(RSub(pnl, position.feesOpen), fee), position.fundingPnl)

\* pnl - feesOpen - fee - fundingPnl, with pnl by side.
RealizedPnl(position, closePrice, fee) ==
  LET pnl == IF position.side = "LONG"
             THEN RMul(RSub(closePrice, position.entryPrice), position.qty)
             ELSE RMul(RSub(position.entryPrice, closePrice), position.qty)
  IN RSub(RSub(RSub(pnl, position.feesOpen), fee), position.fundingPnl)

\* The UPDATE of closePosition.
closeRow(row, closePrice, t, realizedPnl, fee) ==
  [row EXCEPT !.status = "CLOSED", !.closePrice = Some(closePrice), !.closeTime = Some(t),
              !.realizedPnl = realizedPnl, !.feesClose = fee]

\* The writes of closePosition with closeTime left out of the UPDATE.
closeWritesNoTime(S, id, closePrice, fee, event, t) ==
  LET position == S.positions[id]
      realizedPnl == RealizedPnl(position, closePrice, fee)
      S1 == [S EXCEPT !.positions[id] =
               [closeRow(@, closePrice, t, realizedPnl, fee) EXCEPT !.closeTime = None]]
      S2 == createFill(S1, [positionId |-> id, type |-> "CLOSE", price |-> closePrice,
                            qty |-> position.qty, fee |-> fee, ts |-> t])
      S3 == createEvent(S2, [positionId |-> id, event |-> event,
                             payload |-> [closePrice |-> closePrice, realizedPnl |-> realizedPnl],
                             ts |-> t])
  IN [S |-> S3, ret |-> getPositionById(S3, id)]

\* The writes of closePosition, past its checks: the row, the fill, the event.
closeWrites(S, id, closePrice, fee, event, t) ==
  LET position == S.positions[id]
      realizedPnl == RealizedPnl(position, closePrice, fee)
      S1 == [S EXCEPT !.positions[id] = closeRow(@, closePrice, t, realizedPnl, fee)]
      S2 == createFill(S1, [positionId |-> id, type |-> "CLOSE", price |-> closePrice,
                            qty |-> position.qty, fee |-> fee, ts |-> t])
      S3 == createEvent(S2, [positionId |-> id, event |-> event,
                             payload |-> [closePrice |-> closePrice, realizedPnl |-> realizedPnl],
                             ts |-> t])
  IN [S |-> S3, ret |-> getPositionById(S3, id)]

\* closePosition without the check of the row's status.
closePositionUnguarded(S, id, closePrice, fee, event, t) ==
  IF id \notin DOMAIN S.positions THEN [S |-> S, ret |-> None]
  ELSE closeWrites(S, id, closePrice, fee, event, t)

\* Returns [S, ret]: ret is None (null) or Some(the closed row).
closePosition(S, id, closePrice, fee, event, t) ==
  IF id \notin DOMAIN S.positions THEN [S |-> S, ret |-> None]
  ELSE IF S.positions[id].status = "CLOSED" THEN [S |-> S, ret |-> None]
  ELSE closeWrites(S, id, closePrice, fee, event, t)

\* createPosition and closePosition run their three statements (the row, the
\* fill, the event) one by one, each committed as it runs.  When the statement
\* numbered fault throws, the store holds the writes before it: S is the store
\* at the call and T the store all three would leave.
writesBefore(S, T, fault) ==
  IF fault = 1 THEN S
  ELSE IF fault = 2 THEN [T EXCEPT !.fills = S.fills, !.events = S.events]
  ELSE [T EXCEPT !.events = S.events]

\* data = [hasSl, sl, hasTp, tp]: hasSl is data.sl !== undefined.
updatePositionThrows(S, id, data) ==
  /\ data.hasSl \/ data.hasTp
  /\ createEventThrows(S, [positionId |-> id])

\* updatePosition that logs the event and leaves the row as it was.
updatePositionEventOnly(S, id, data, t) ==
  IF ~data.hasSl /\ ~data.hasTp THEN [S |-> S, ret |-> getPositionById(S, id)]
  ELSE
    LET S2 == createEvent(S, [positionId |-> id,
                              event |-> IF data.hasSl THEN "SL_UPDATED" ELSE "TP_UPDATED",
                              payload |-> data, ts |-> t])
    IN [S |-> S2, ret |-> getPositionById(S2, id)]

\* Returns [S, ret]; called only when it does not throw.
updatePosition(S, id, data, t) ==
  IF ~data.hasSl /\ ~data.hasTp THEN [S |-> S, ret |-> getPositionById(S, id)]
  ELSE
    LET S1 == [S EXCEPT !.positions[id] =
                 [@ EXCEPT !.sl = IF data.hasSl THEN data.sl ELSE @,
                           !.tp = IF data.hasTp THEN data.tp ELSE @]]
        S2 == createEvent(S1, [positionId |-> id,
                               event |-> IF data.hasSl THEN "SL_UPDATED" ELSE "TP_UPDATED",
                               payload |-> data, ts |-> t])
    IN [S |-> S2, ret |-> getPositionById(S2, id)]

\* deletePosition with no cascade to paper_events.
deletePositionKeepsEvents(S, id) ==
  [S |-> [S EXCEPT !.positions = [i \in DOMAIN @ \ {id} |-> @[i]],
                   !.fills = SelectSeq(@, LAMBDA f : f.positionId # id)],
   ret |-> id \in DOMAIN S.positions]

\* DELETE with ON DELETE CASCADE; ret is result.changes > 0.
deletePosition(S, id) ==
  [S |-> [S EXCEPT !.positions = [i \in DOMAIN @ \ {id} |-> @[i]],
                   !.fills = SelectSeq(@, LAMBDA f : f.positionId # id),
                   !.events = SelectSeq(@, LAMBDA e : e.positionId # id)],
   ret |-> id \in DOMAIN S.positions]

\* --------------------------------------------------------------- PriceFeed
maxReconnectAttempts == 10

\* `${normalizedSymbol}@markPrice`
Stream(normalizedSymbol) == Append(normalizedSymbol, "@markPrice")

\* A control frame; params is kept as a set of streams, message ids are left out.
SubscriptionMessage(method, streams) == [method |-> method, params |-> streams]

\* F = [subs, open, sent]: subscribedSymbols, whether this.ws is a socket whose
\* readyState is OPEN, and the frames the running handler has sent so far.
Feed == [subs |-> subscribedSymbols, open |-> ws = "OPEN", sent |-> <<>>]

\* subscribe without the check of the set.
subscribeUnchecked(F, symbol) ==
  LET normalizedSymbol == toLowerCase(symbol)
  IN [F EXCEPT !.subs = @ \cup {normalizedSymbol},
               !.sent = IF F.open
                        THEN Append(@, SubscriptionMessage("SUBSCRIBE", {Stream(normalizedSymbol)}))
                        ELSE @]

subscribe(F, symbol) ==
  LET normalizedSymbol == toLowerCase(symbol)
  IN IF normalizedSymbol \in F.subs THEN F
     ELSE [F EXCEPT !.subs = @ \cup {normalizedSymbol},
                    !.sent = IF F.open
                             THEN Append(@, SubscriptionMessage("SUBSCRIBE", {Stream(normalizedSymbol)}))
                             ELSE @]

\* unsubscribe that forgets the symbol only when it can send the frame.
unsubscribeWhenOpen(F, symbol) ==
  LET normalizedSymbol == toLowerCase(symbol)
  IN IF normalizedSymbol \notin F.subs \/ ~F.open THEN F
     ELSE [F EXCEPT !.subs = @ \ {normalizedSymbol},
                    !.sent = Append(@, SubscriptionMessage("UNSUBSCRIBE", {Stream(normalizedSymbol)}))]

unsubscribe(F, symbol) ==
  LET normalizedSymbol == toLowerCase(symbol)
  IN IF normalizedSymbol \notin F.subs THEN F
     ELSE [F EXCEPT !.subs = @ \ {normalizedSymbol},
                    !.sent = IF F.open
                             THEN Append(@, SubscriptionMessage("UNSUBSCRIBE", {Stream(normalizedSymbol)}))
                             ELSE @]

resubscribeAll(F) ==
  IF F.subs = {} THEN F
  ELSE IF F.open
  THEN [F EXCEPT !.sent = Append(@, SubscriptionMessage("SUBSCRIBE", {Stream(x) : x \in F.subs}))]
  ELSE F

\* reconnectDelay doubling from 2 s: Math.pow(2, reconnectAttempts).
reconnectDelayFromTwo(attempts) ==
  IF 1000 * 2^attempts < 30000 THEN 1000 * 2^attempts ELSE 30000

\* Math.min(1000 * Math.pow(2, reconnectAttempts - 1), 30000), in ms.
reconnectDelay(attempts) ==
  IF 1000 * 2^(attempts - 1) < 30000 THEN 1000 * 2^(attempts - 1) ELSE 30000

\* scheduleReconnect without the limit on the attempts.
scheduleReconnectUnbounded(R) ==
  [R EXCEPT !.attempts = @ + 1, !.timeout = Some(reconnectDelay(R.attempts + 1))]

\* R = [attempts, timeout, emitted]: reconnectAttempts, reconnectTimeout and
\* the events the running handler has emitted so far.
scheduleReconnect(R) ==
  IF R.attempts >= maxReconnectAttempts
  THEN [R EXCEPT !.emitted = Append(@, "maxReconnectAttemptsReached")]
  ELSE [R EXCEPT !.attempts = @ + 1, !.timeout = Some(reconnectDelay(R.attempts + 1))]

\* --------------------------------------------------------- trigger engine
calculateTakerFee(notional) == calculateFee(notional, settings.takerFee)

\* Orders in which ORDER BY entryTime DESC may return the given rows.
RowOrders(S, ids) ==
  {o \in [1..Cardinality(ids) -> ids] :
     /\ \A i, j \in DOMAIN o : i # j => o[i] # o[j]
     /\ \A i, j \in DOMAIN o : i < j => S.positions[o[i]].entryTime >= S.positions[o[j]].entryTime}

\* getAllOpenPositions without its WHERE clause.
AllIds(S) == DOMAIN S.positions

\* The ids of the rows of getAllOpenPositions().
AllOpenIds(S) == {i \in DOMAIN S.positions : S.positions[i].status = "OPEN"}

RECURSIVE subscribeEach(_, _)
subscribeEach(F, symbols) ==
  IF symbols = <<>> THEN F ELSE subscribeEach(subscribe(F, Head(symbols)), Tail(symbols))

\* resubscribeOpenPositions: subscribe the symbol of every OPEN position, in
\* the order of the rows.
resubscribeOpenPositions(S, F, order) ==
  subscribeEach(F, [i \in DOMAIN order |-> S.positions[order[i]].symbol])

\* getTriggerEngine(): the first call constructs the feed client (connect()
\* leaves its socket CONNECTING) and the engine, and starts the engine.  No
\* frame can be sent on that socket yet, so the order of the rows is immaterial.
getTriggerEngine(S, F) ==
  IF engineUp THEN F
  ELSE resubscribeOpenPositions(S, [F EXCEPT !.open = FALSE],
                                CHOOSE o \in RowOrders(S, AllOpenIds(S)) : TRUE)

\* this.ws after getBinanceWebSocketClient().
wsAfterGet == IF engineUp THEN ws ELSE "CONNECTING"

getCachedPrice(symbol) ==
  IF toUpperCase(symbol) \in DOMAIN priceCache THEN Some(priceCache[toUpperCase(symbol)]) ELSE None

\* executeTrigger emitting the realizedPnl of the row it read before closing.
executeTriggerStalePnl(E, positionId, closePrice, event, t) ==
  IF positionId \notin DOMAIN E.S.positions \/ E.S.positions[positionId].status # "OPEN"
  THEN E
  ELSE
    LET position == E.S.positions[positionId]
        closeFee == calculateTakerFee(calculateNotional(position.qty, closePrice))
        r == closePosition(E.S, positionId, closePrice, closeFee, event, t)
    IN [S |-> r.S,
        feed |-> IF OpenIdsOf(r.S, position.symbol) = {}
                 THEN unsubscribe(E.feed, position.symbol) ELSE E.feed,
        fired |-> Append(E.fired, [positionId |-> positionId, event |-> event,
                                   closePrice |-> closePrice,
                                   realizedPnl |-> position.realizedPnl])]

\* E = [S, feed, fired]: the store, the feed and the
\* triggerExecuted events emitted so far while one tick is processed.
executeTrigger(E, positionId, closePrice, event, t) ==
  IF positionId \notin DOMAIN E.S.positions \/ E.S.positions[positionId].status # "OPEN"
  THEN E
  ELSE
    LET position == E.S.positions[positionId]
        notional == calculateNotional(position.qty, closePrice)
        closeFee == calculateTakerFee(notional)
        r == closePosition(E.S, positionId, closePrice, closeFee, event, t)
    IN IF IsNull(r.ret) THEN E
       ELSE [S |-> r.S,
             feed |-> IF OpenIdsOf(r.S, position.symbol) = {}
                      THEN unsubscribe(E.feed, position.symbol) ELSE E.feed,
             fired |-> Append(E.fired, [positionId |-> positionId, event |-> event,
                                        closePrice |-> closePrice,
                                        realizedPnl |-> Val(r.ret).realizedPnl])]

\* The body of the loop with TP checked before SL.
checkTriggersOfTpFirst(E, position, markPrice, t) ==
  IF shouldTriggerTP(position.side, markPrice, position.tp)
  THEN executeTrigger(E, position.id, markPrice, "TP_TRIGGERED", t)
  ELSE IF shouldTriggerSL(position.side, markPrice, position.sl)
  THEN executeTrigger(E, position.id, markPrice, "SL_TRIGGERED", t)
  ELSE E

\* The body of the loop of checkTriggersForSymbol: SL first, then TP.
checkTriggersOf(E, position, markPrice, t) ==
  IF shouldTriggerSL(position.side, markPrice, position.sl)
  THEN executeTrigger(E, position.id, markPrice, "SL_TRIGGERED", t)
  ELSE IF shouldTriggerTP(position.side, markPrice, position.tp)
  THEN executeTrigger(E, position.id, markPrice, "TP_TRIGGERED", t)
  ELSE E

\* The loop of checkTriggersForSymbol over the rows read at its start.
RECURSIVE checkTriggersLoop(_, _, _, _)
checkTriggersLoop(E, rows, markPrice, t) ==
  IF rows = <<>> THEN E
  ELSE checkTriggersLoop(checkTriggersOf(E, Head(rows), markPrice, t), Tail(rows), markPrice, t)

checkTriggersForSymbol(E, order, markPrice, t) ==
  checkTriggersLoop(E, [i \in DOMAIN order |-> E.S.positions[order[i]]], markPrice, t)

\* executeTrigger when the statement numbered fault of closePosition throws:
\* the catch logs, nothing is emitted and nothing is unsubscribed.
executeTriggerThrows(E, positionId, closePrice, event, t, fault) ==
  IF positionId \notin DOMAIN E.S.positions \/ E.S.positions[positionId].status # "OPEN"
  THEN E
  ELSE
    LET position == E.S.positions[positionId]
        closeFee == calculateTakerFee(calculateNotional(position.qty, closePrice))
        r == closePosition(E.S, positionId, closePrice, closeFee, event, t)
    IN [E EXCEPT !.S = writesBefore(E.S, r.S, fault)]

\* The body of the loop for the position whose closure fails.
checkTriggersOfThrows(E, position, markPrice, t, fault) ==
  IF shouldTriggerSL(position.side, markPrice, position.sl)
  THEN executeTriggerThrows(E, position.id, markPrice, "SL_TRIGGERED", t, fault)
  ELSE IF shouldTriggerTP(position.side, markPrice, position.tp)
  THEN executeTriggerThrows(E, position.id, markPrice, "TP_TRIGGERED", t, fault)
  ELSE E

\* The loop with the failure thrown out of it: the rows after failId are skipped.
RECURSIVE checkTriggersLoopHalting(_, _, _, _, _, _)
checkTriggersLoopHalting(E, rows, markPrice, t, failId, fault) ==
  IF rows = <<>> THEN E
  ELSE IF Head(rows).id = failId
  THEN checkTriggersOfThrows(E, Head(rows), markPrice, t, fault)
  ELSE checkTriggersLoopHalting(checkTriggersOf(E, Head(rows), markPrice, t), Tail(rows),
                                markPrice, t, failId, fault)

\* The loop of checkTriggersForSymbol when the closure of failId fails.
RECURSIVE checkTriggersLoopThrows(_, _, _, _, _, _)
checkTriggersLoopThrows(E, rows, markPrice, t, failId, fault) ==
  IF rows = <<>> THEN E
  ELSE checkTriggersLoopThrows(
         IF Head(rows).id = failId
         THEN checkTriggersOfThrows(E, Head(rows), markPrice, t, fault)
         ELSE checkTriggersOf(E, Head(rows), markPrice, t),
         Tail(rows), markPrice, t, failId, fault)

\* ------------------------------------------------------------------ inputs
Ids == 1..MaxPositions

\* ------------------------------------------------------------- LiveStream
calculateUnrealizedPnL(side, entryPrice, markPrice, qty) ==
  IF side = "LONG" THEN RMul(RSub(markPrice, entryPrice), qty)
  ELSE RMul(RSub(entryPrice, markPrice), qty)

calculatePnLPercent(unrealizedPnl, entryPrice, qty) ==
  LET notional == calculateNotional(qty, entryPrice)
  IN IF notional.n = 0 THEN Zero ELSE RMul(RDiv(unrealizedPnl, notional), Num(100))

calculatePnLData(position, markPrice) ==
  LET unrealizedPnl == calculateUnrealizedPnL(position.side, position.entryPrice, markPrice,
                                              position.qty)
  IN [unrealizedPnl |-> unrealizedPnl,
      pnlPercent |-> calculatePnLPercent(unrealizedPnl, position.entryPrice, position.qty)]

ClientIds == 1..MaxClients

\* A session that has not connected yet.  state is "new", then "open" until
\* controller.close(); priceUpdate and triggerExecuted tell whether the
\* session's listeners are attached, heartbeat whether its timer runs.
NewClient ==
  [state |-> "new", priceUpdate |-> FALSE, triggerExecuted |-> FALSE, heartbeat |-> FALSE,
   frames |-> <<>>]

\* The session when the process has gone.
Gone(client) ==
  [client EXCEPT !.state = IF @ = "open" THEN "closed" ELSE @,
                 !.priceUpdate = FALSE, !.triggerExecuted = FALSE, !.heartbeat = FALSE]

\* enqueue that puts the frame at the head of the queue.
enqueueFirst(frames, frame) == <<frame>> \o frames

\* controller.enqueue(encoder.encode(message))
enqueue(frames, frame) == Append(frames, frame)

RECURSIVE enqueueAll(_, _)
enqueueAll(frames, more) ==
  IF more = <<>> THEN frames ELSE enqueueAll(enqueue(frames, Head(more)), Tail(more))

\* The frames; timestamps are left out.
ConnectedFrame == [type |-> "connected"]

HeartbeatFrame == [type |-> "heartbeat"]

\* positionsData: the OPEN rows in the order of the query, with the derived
\* fields when the engine has a cached price that is truthy.
InitialFrame(S, order) ==
  [type |-> "initial",
   data |-> [i \in DOMAIN order |->
               LET pos == S.positions[order[i]]
                   cachedPrice == getCachedPrice(pos.symbol)
                   priced == ~IsNull(cachedPrice) /\ Truthy(Val(cachedPrice))
               IN [id |-> pos.id, symbol |-> pos.symbol, side |-> pos.side, qty |-> pos.qty,
                   entryPrice |-> pos.entryPrice,
                   markPrice |-> IF priced THEN cachedPrice ELSE None,
                   unrealizedPnl |-> IF priced
                                     THEN Some(calculatePnLData(pos, Val(cachedPrice)).unrealizedPnl)
                                     ELSE None,
                   pnlPercent |-> IF priced
                                  THEN Some(calculatePnLData(pos, Val(cachedPrice)).pnlPercent)
                                  ELSE None,
                   sl |-> pos.sl, tp |-> pos.tp, leverage |-> pos.leverage,
                   entryTime |-> pos.entryTime]]]

\* handleTriggerExecuted's frames for the events of one tick.  at numbers the
\* tick the frame derives from; it is not part of the payload.
TriggerFrames(fired, at) ==
  [i \in DOMAIN fired |-> [type |-> "trigger-executed", data |-> fired[i], at |-> at]]

\* handlePriceUpdate's frames without the status filter: one for each row of
\* update.symbol, OPEN or CLOSED.
UpdateFramesOfAll(S, order, symbol, markPrice, at) ==
  LET ids == {i \in DOMAIN S.positions : S.positions[i].symbol = symbol}
      all == CHOOSE o \in [1..Cardinality(ids) -> ids] : \A i, j \in DOMAIN o : i # j => o[i] # o[j]
  IN [i \in DOMAIN all |->
        LET position == S.positions[all[i]]
            pnlData == calculatePnLData(position, markPrice)
        IN [type |-> "position-update", id |-> position.id, symbol |-> position.symbol,
            markPrice |-> markPrice, unrealizedPnl |-> pnlData.unrealizedPnl,
            pnlPercent |-> pnlData.pnlPercent, at |-> at]]

\* handlePriceUpdate's frames: one for each OPEN row of update.symbol.
UpdateFrames(S, order, symbol, markPrice, at) ==
  [i \in DOMAIN order |->
     LET position == S.positions[order[i]]
         pnlData == calculatePnLData(position, markPrice)
     IN [type |-> "position-update", id |-> position.id, symbol |-> position.symbol,
         markPrice |-> markPrice, unrealizedPnl |-> pnlData.unrealizedPnl,
         pnlPercent |-> pnlData.pnlPercent, at |-> at]]

\* A listener registered twice: each frame is enqueued two times.
deliverTwice(client, more) ==
  IF client.state = "open"
  THEN [client EXCEPT !.frames = enqueueAll(enqueueAll(@, more), more)]
  ELSE client

\* A listener's enqueue: on a closed stream it throws, which the listener
\* catches.
deliver(client, more) ==
  IF client.state = "open" THEN [client EXCEPT !.frames = enqueueAll(@, more)] ELSE client

\* fanOut where a listener's exception leaves emit: the listeners registered
\* after a session whose stream is no longer open are not called.
fanOutUntilThrow(C, S, fired, order, symbol, markPrice, at) ==
  [c \in DOMAIN C |->
     IF \E b \in DOMAIN C : b < c /\ C[b].priceUpdate /\ C[b].state # "open"
     THEN C[c]
     ELSE LET c1 == IF C[c].triggerExecuted THEN deliver(C[c], TriggerFrames(fired, at))
                    ELSE C[c]
          IN IF c1.priceUpdate THEN deliver(c1, UpdateFrames(S, order, symbol, markPrice, at))
             ELSE c1]

\* The engine's triggerExecuted events of a tick and then its priceUpdate
\* event, delivered to the listeners attached.
fanOut(C, S, fired, order, symbol, markPrice, at) ==
  [c \in DOMAIN C |->
     LET c1 == IF C[c].triggerExecuted THEN deliver(C[c], TriggerFrames(fired, at)) ELSE C[c]
     IN IF c1.priceUpdate THEN deliver(c1, UpdateFrames(S, order, symbol, markPrice, at))
        ELSE c1]

\* ---------------------------------------------------------- inputs, continued
Prices == {Num(p) : p \in 1..MaxPrice}

\* Mark-price streams the exchange publishes (upper-case symbols).
TickSymbols == {BTCUSDT}

\* The entry price of the base request, strictly inside the price range.
EntryLevel == Num(2)

BaseBody ==
  [symbol |-> BTCUSDT, side |-> "LONG", sizeMode |-> "QTY", sizeValue |-> Num(2),
   leverage |-> 1, entryType |-> "LIMIT", limitPrice |-> Some(EntryLevel),
   sl |-> None, tp |-> None, slMode |-> "PRICE", tpMode |-> "PRICE"]

\* Requests the validation of POST /positions should accept: both sides,
\* with no SL/TP, with SL and TP on their usual sides of the entry price
\* (also given in percent), and with SL and TP crossed; a market entry
\* sized in quote currency.
TradeBodies ==
  {BaseBody,
   [BaseBody EXCEPT !.sl = Some(Num(1)), !.tp = Some(Num(MaxPrice))],
   [BaseBody EXCEPT !.sl = Some(Num(MaxPrice)), !.tp = Some(Num(1))],
   [BaseBody EXCEPT !.side = "SHORT", !.sl = Some(Num(MaxPrice)), !.tp = Some(Num(1))],
   [BaseBody EXCEPT !.slMode = "PERCENT", !.sl = Some(Num(50)),
                    !.tpMode = "PERCENT", !.tp = Some(Num(50))],
   [BaseBody EXCEPT !.sizeMode = "USDT", !.entryType = "MARKET"]}

\* The base request with one field off: symbol, side, size, leverage, limit price.
OddBodies ==
  {[BaseBody EXCEPT !.symbol = x] : x \in {btcusdt, BTC, <<>>}}
  \cup {[BaseBody EXCEPT !.side = x] : x \in {"FOO", ""}}
  \cup {[BaseBody EXCEPT !.sizeValue = x] : x \in {Num(0), Num(-1)}}
  \cup {[BaseBody EXCEPT !.leverage = x] : x \in {0, 126}}
  \cup {[BaseBody EXCEPT !.limitPrice = x] : x \in {Some(Num(0)), Some(Num(-1))}}

\* Request bodies of PATCH /positions/{id}: each field absent, null or a level.
Patches ==
  {[hasSl |-> FALSE, sl |-> None, hasTp |-> FALSE, tp |-> None],
   [hasSl |-> TRUE, sl |-> None, hasTp |-> FALSE, tp |-> None],
   [hasSl |-> FALSE, sl |-> None, hasTp |-> TRUE, tp |-> Some(EntryLevel)],
   [hasSl |-> TRUE, sl |-> Some(EntryLevel), hasTp |-> TRUE, tp |-> None]}

\* Outcomes of the REST price fetch: a price, or a failure.
FetchOutcomes == {Some(Num(1)), Some(Num(MaxPrice)), None}

TakerFees == {Rat(4, 10000), Rat(1, 1000)}

\* What the last operation answered: the HTTP status, the body's error text and
\* whether the body carries an exception's details; for a tick, the message
\* and the triggerExecuted events it emitted.
Response(op, id, status, error, details) ==
  [op |-> op, id |-> id, status |-> status, error |-> error, details |-> details,
   symbol |-> <<>>, mark |-> None, fired |-> <<>>, sent |-> <<>>, emitted |-> <<>>,
   stats |-> None]

\* -------------------------------------------------------------------- Init
Init ==
  /\ positions = <<>>
  /\ fills = <<>>
  /\ events = <<>>
  /\ nextId = 1
  /\ settings = [takerFee |-> Rat(4, 10000), makerFee |-> Rat(2, 10000),
                 enableFunding |-> FALSE, baseBalance |-> Num(10000)]
  /\ now = 1
  /\ engineUp = FALSE
  /\ priceCache = <<>>
  /\ subscribedSymbols = {}
  /\ closing = [i \in Ids |-> 0]
  /\ ws = "NULL"
  /\ detached = FALSE
  /\ reconnectAttempts = 0
  /\ reconnectTimeout = None
  /\ isIntentionallyClosed = FALSE
  /\ pingInterval = FALSE
  /\ boot = "idle"
  /\ clients = [c \in ClientIds |-> NewClient]
  /\ steps = 0
  /\ last = Response("init", 0, 0, "", FALSE)

\* Every operation counts against the length of the run.
Tock == steps < MaxSteps /\ steps' = steps + 1

SetStore(S) ==
  /\ positions' = S.positions
  /\ fills' = S.fills
  /\ events' = S.events
  /\ nextId' = S.nextId

StoreUnchanged == UNCHANGED <<positions, fills, events, nextId>>

\* The first getDb() of the process schedules initializeAppAsync.
getDb == boot' = IF boot = "idle" THEN "scheduled" ELSE boot

\* What a handler leaves of the session when all it may do is construct the client.
SessionAfterGet ==
  /\ ws' = wsAfterGet
  /\ UNCHANGED <<detached, reconnectAttempts, reconnectTimeout, isIntentionallyClosed,
                 pingInterval>>

\* ---------------------------------------------------------- POST /positions
\* The handler is suspended only on the price fetch, before which it has
\* read nothing but the request; it is modelled from the fetch's outcome on.
MissingFields(body) ==
  \/ body.symbol = <<>>
  \/ body.side = ""
  \/ ~Truthy(body.sizeValue)
  \/ body.leverage = 0

UsesLimitPrice(body) ==
  body.entryType = "LIMIT" /\ ~IsNull(body.limitPrice) /\ Truthy(Val(body.limitPrice))

\* getCurrentPrice rejects before fetching when the symbol is malformed.
getCurrentPriceThrows(symbol, fetch) ==
  ~isValidSymbolFormat(toUpperCase(symbol)) \/ IsNull(fetch)

Hundred == Num(100)

\* Percent SL/TP to absolute price levels.
slFromBody(body, entryPrice) ==
  IF body.slMode = "PERCENT" /\ ~IsNull(body.sl) /\ Truthy(Val(body.sl))
  THEN IF body.side = "LONG"
       THEN Some(RMul(entryPrice, RSub(Num(1), RDiv(Val(body.sl), Hundred))))
       ELSE Some(RMul(entryPrice, RAdd(Num(1), RDiv(Val(body.sl), Hundred))))
  ELSE body.sl

tpFromBody(body, entryPrice) ==
  IF body.tpMode = "PERCENT" /\ ~IsNull(body.tp) /\ Truthy(Val(body.tp))
  THEN IF body.side = "LONG"
       THEN Some(RMul(entryPrice, RAdd(Num(1), RDiv(Val(body.tp), Hundred))))
       ELSE Some(RMul(entryPrice, RSub(Num(1), RDiv(Val(body.tp), Hundred))))
  ELSE body.tp

PostPosition(body, fetch) ==
  /\ Tock
  /\ UNCHANGED clients
  /\ UNCHANGED <<settings, now, priceCache, closing>>
  /\ IF MissingFields(body)
     THEN /\ last' = Response("create", 0, 400, "Missing required fields", FALSE)
          /\ StoreUnchanged /\ UNCHANGED <<engineUp, subscribedSymbols, sessionVars, boot>>
     ELSE IF body.leverage < 1 \/ body.leverage > 125
     THEN /\ last' = Response("create", 0, 400, "Leverage must be between 1 and 125", FALSE)
          /\ StoreUnchanged /\ UNCHANGED <<engineUp, subscribedSymbols, sessionVars, boot>>
     ELSE IF RLe(body.sizeValue, Zero)
     THEN /\ last' = Response("create", 0, 400, "Size must be greater than 0", FALSE)
          /\ StoreUnchanged /\ UNCHANGED <<engineUp, subscribedSymbols, sessionVars, boot>>
     ELSE IF ~UsesLimitPrice(body) /\ getCurrentPriceThrows(body.symbol, fetch)
     THEN /\ last' = Response("create", 0, 500, "Failed to create position", TRUE)
          /\ StoreUnchanged /\ UNCHANGED <<engineUp, subscribedSymbols, sessionVars, boot>>
     ELSE
       LET entryPrice == IF UsesLimitPrice(body) THEN Val(body.limitPrice) ELSE Val(fetch)
           qty == IF body.sizeMode = "USDT" THEN RDiv(body.sizeValue, entryPrice)
                  ELSE body.sizeValue
           fee == calculateTakerFee(calculateNotional(qty, entryPrice))
           positionData == [body EXCEPT !.sl = slFromBody(body, entryPrice),
                                        !.tp = tpFromBody(body, entryPrice)]
       IN IF createPositionThrows(positionData)
          THEN /\ last' = Response("create", 0, 500, "Failed to create position", TRUE)
               /\ StoreUnchanged /\ UNCHANGED <<engineUp, subscribedSymbols, sessionVars>>
               /\ getDb
          ELSE
            LET S1 == createPosition(Store, positionData, entryPrice, fee, now)
                F1 == subscribe(getTriggerEngine(S1, Feed), body.symbol)
            IN /\ SetStore(S1)
               /\ getDb
               /\ engineUp' = TRUE
               /\ SessionAfterGet
               /\ subscribedSymbols' = F1.subs
               /\ last' = [Response("create", nextId, 201, "", FALSE) EXCEPT !.sent = F1.sent]

\* POST /positions with a LIMIT entry, when the statement numbered fault of
\* createPosition fails in the storage layer: the handler's catch answers 500.
PostPositionStorageError(body, fault) ==
  /\ Tock
  /\ ~MissingFields(body)
  /\ body.leverage >= 1 /\ body.leverage <= 125
  /\ ~RLe(body.sizeValue, Zero)
  /\ UsesLimitPrice(body)
  /\ LET entryPrice == Val(body.limitPrice)
         qty == IF body.sizeMode = "USDT" THEN RDiv(body.sizeValue, entryPrice)
                ELSE body.sizeValue
         fee == calculateTakerFee(calculateNotional(qty, entryPrice))
         positionData == [body EXCEPT !.sl = slFromBody(body, entryPrice),
                                      !.tp = tpFromBody(body, entryPrice)]
     IN /\ ~createPositionThrows(positionData)
        /\ SetStore(writesBefore(Store,
                                 createPosition(Store, positionData, entryPrice, fee, now),
                                 fault))
  /\ last' = Response("create", 0, 500, "Failed to create position", TRUE)
  /\ getDb
  /\ UNCHANGED <<settings, now, engineUp, priceCache, subscribedSymbols, closing, sessionVars,
                 clients>>

\* ------------------------------------------------ POST /positions/{id}/close
\* The part of the handler that follows the price: fee, closePosition, response.
FinishClose(id, qty, closePrice) ==
  LET closeFee == calculateTakerFee(calculateNotional(qty, closePrice))
      r == closePosition(Store, id, closePrice, closeFee, "MANUAL_CLOSE", now)
  IN /\ SetStore(r.S)
     /\ last' = IF IsNull(r.ret)
                THEN Response("close", id, 500, "Failed to close position", FALSE)
                ELSE Response("close", id, 200, "", FALSE)

\* From the start of the handler to its response or to the price fetch.
CloseStart(id) ==
  /\ Tock
  /\ UNCHANGED clients
  /\ getDb
  /\ UNCHANGED <<settings, now, priceCache>>
  /\ IF id \notin DOMAIN positions
     THEN /\ last' = Response("close", id, 404, "Position not found", FALSE)
          /\ StoreUnchanged /\ UNCHANGED <<engineUp, subscribedSymbols, closing, sessionVars>>
     ELSE IF positions[id].status = "CLOSED"
     THEN /\ last' = Response("close", id, 400, "Position already closed", FALSE)
          /\ StoreUnchanged /\ UNCHANGED <<engineUp, subscribedSymbols, closing, sessionVars>>
     ELSE
       LET position == positions[id]
           cached == getCachedPrice(position.symbol)
       IN /\ engineUp' = TRUE
          /\ SessionAfterGet
          /\ subscribedSymbols' = getTriggerEngine(Store, Feed).subs
          /\ IF ~IsNull(cached) /\ Truthy(Val(cached))
             THEN FinishClose(id, position.qty, Val(cached)) /\ UNCHANGED closing
             ELSE IF ~isValidSymbolFormat(toUpperCase(position.symbol))
             THEN /\ last' = Response("close", id, 500, "Failed to close position", TRUE)
                  /\ StoreUnchanged /\ UNCHANGED closing
             ELSE /\ closing[id] < MaxPending
                  /\ closing' = [closing EXCEPT ![id] = @ + 1]
                  /\ last' = Response("close-fetch", id, 0, "", FALSE)
                  /\ StoreUnchanged

\* The price fetch of a suspended request returns (or fails) and the handler
\* runs to its response.  qty is the value read before the fetch.
CloseResume(id, qty, fetch) ==
  /\ Tock
  /\ UNCHANGED clients
  /\ closing[id] > 0
  /\ closing' = [closing EXCEPT ![id] = @ - 1]
  /\ UNCHANGED <<settings, now, priceCache, engineUp, subscribedSymbols, sessionVars>>
  /\ IF IsNull(fetch)
     THEN /\ last' = Response("close", id, 500, "Failed to close position", TRUE)
          /\ StoreUnchanged /\ UNCHANGED boot
     ELSE FinishClose(id, qty, Val(fetch)) /\ getDb

\* ------------------------------------------------------- inbound messages
\* A frame from the server: json tells whether its text is JSON, value is what
\* JSON.parse gives.  A value is null (isNull) or an object with some of the
\* members result, id, e, s and p; "undefined" stands for a missing member and
\* p holds parseFloat of its text.
Value(isNull, result, id, e, s, p) ==
  [isNull |-> isNull, result |-> result, id |-> id, e |-> e, s |-> s, p |-> p]

NotJson == [json |-> FALSE, value |-> Value(TRUE, "undefined", 0, "undefined", <<>>, Zero)]

Json(value) == [json |-> TRUE, value |-> value]

\* JSON.parse(data.toString()); None when it throws.
JSONparse(data) == IF data.json THEN Some(data.value) ELSE None

\* handleMessage that takes every message with a symbol for a price update.
handleMessageAnyEvent(message) ==
  IF message.isNull THEN "throws"
  ELSE IF message.result = "null" /\ message.id # 0 THEN "confirmed"
  ELSE IF message.e # "undefined" THEN "priceUpdate"
  ELSE "none"

\* What handleMessage does with a message: it throws on null, returns on a
\* subscription confirmation, emits priceUpdate, or does nothing.
handleMessage(message) ==
  IF message.isNull THEN "throws"
  ELSE IF message.result = "null" /\ message.id # 0 THEN "confirmed"
  ELSE IF message.e = "markPriceUpdate" THEN "priceUpdate"
  ELSE "none"

\* CloseResume when the statement numbered fault of closePosition fails in the
\* storage layer: the handler's catch answers 500.
CloseResumeStorageError(id, qty, fetch, fault) ==
  /\ Tock
  /\ closing[id] > 0
  /\ ~IsNull(fetch)
  /\ id \in DOMAIN positions
  /\ positions[id].status = "OPEN"
  /\ closing' = [closing EXCEPT ![id] = @ - 1]
  /\ LET closePrice == Val(fetch)
         closeFee == calculateTakerFee(calculateNotional(qty, closePrice))
         r == closePosition(Store, id, closePrice, closeFee, "MANUAL_CLOSE", now)
     IN SetStore(writesBefore(Store, r.S, fault))
  /\ last' = Response("close", id, 500, "Failed to close position", TRUE)
  /\ getDb
  /\ UNCHANGED <<settings, now, priceCache, engineUp, subscribedSymbols, sessionVars, clients>>

\* ---------------------------------------------------------------- GET /stream
\* The handler and the start() of its ReadableStream, which runs with it.
StreamConnect(c) ==
  /\ Tock
  /\ clients[c].state = "new"
  /\ getDb
  /\ engineUp' = TRUE
  /\ SessionAfterGet
  /\ subscribedSymbols' = getTriggerEngine(Store, Feed).subs
  /\ \E order \in RowOrders(Store, AllOpenIds(Store)) :
       clients' = [clients EXCEPT ![c] =
                     [state |-> "open", priceUpdate |-> TRUE, triggerExecuted |-> TRUE,
                      heartbeat |-> TRUE,
                      frames |-> enqueue(enqueue(<<>>, ConnectedFrame),
                                         InitialFrame(Store, order))]]
  /\ last' = Response("stream", c, 200, "", FALSE)
  /\ StoreUnchanged
  /\ UNCHANGED <<settings, now, priceCache, closing>>

Beats(c) == Cardinality({i \in DOMAIN clients[c].frames : clients[c].frames[i].type = "heartbeat"})

\* A heartbeat timer set with setTimeout: it fires once.
HeartbeatOnce(c) ==
  /\ clients[c].heartbeat
  /\ Beats(c) < MaxBeats
  /\ clients' = [clients EXCEPT ![c] = [deliver(@, <<HeartbeatFrame>>) EXCEPT !.heartbeat = FALSE]]
  /\ last' = Response("heartbeat", c, 0, "", FALSE)
  /\ StoreUnchanged
  /\ UNCHANGED <<settings, now, engineUp, priceCache, subscribedSymbols, closing, sessionVars,
                 boot, steps>>

\* The callback of heartbeatInterval.
Heartbeat(c) ==
  /\ clients[c].heartbeat
  /\ Beats(c) < MaxBeats
  /\ clients' = [clients EXCEPT ![c] = deliver(@, <<HeartbeatFrame>>)]
  /\ last' = Response("heartbeat", c, 0, "", FALSE)
  /\ StoreUnchanged
  /\ UNCHANGED <<settings, now, engineUp, priceCache, subscribedSymbols, closing, sessionVars,
                 boot, steps>>

\* The consumer of the response body cancels the stream.  The stream has no
\* cancel callback: its controller is closed while the session's listeners
\* and timer stay, and every later enqueue throws.
Cancel(c) ==
  /\ Tock
  /\ clients[c].state = "open"
  /\ clients' = [clients EXCEPT ![c] = [@ EXCEPT !.state = "cancelled"]]
  /\ last' = Response("cancel", c, 0, "", FALSE)
  /\ StoreUnchanged
  /\ UNCHANGED <<settings, now, engineUp, priceCache, subscribedSymbols, closing, sessionVars,
                 boot>>

\* An abort listener that leaves the session's listeners on the engine.
AbortKeepsListeners(c) ==
  /\ Tock
  /\ clients[c].state = "open"
  /\ clients' = [clients EXCEPT ![c] = [@ EXCEPT !.heartbeat = FALSE, !.state = "closed"]]
  /\ last' = Response("abort", c, 0, "", FALSE)
  /\ StoreUnchanged
  /\ UNCHANGED <<settings, now, engineUp, priceCache, subscribedSymbols, closing, sessionVars,
                 boot>>

\* The abort listener of request.signal.
Abort(c) ==
  /\ Tock
  /\ clients[c].state = "open"
  /\ clients' = [clients EXCEPT ![c] =
                   [@ EXCEPT !.heartbeat = FALSE, !.priceUpdate = FALSE,
                             !.triggerExecuted = FALSE, !.state = "closed"]]
  /\ last' = Response("abort", c, 0, "", FALSE)
  /\ StoreUnchanged
  /\ UNCHANGED <<settings, now, engineUp, priceCache, subscribedSymbols, closing, sessionVars,
                 boot>>

\* ------------------------------------------------------------ GET /positions
ListPositions ==
  /\ Tock
  /\ UNCHANGED clients
  /\ getDb
  /\ last' = Response("list", 0, 200, "", FALSE)
  /\ StoreUnchanged
  /\ UNCHANGED <<settings, now, engineUp, priceCache, subscribedSymbols, closing, sessionVars>>

\* ----------------------------------------------------------------- GET /stats
\* Math.abs
RAbs(x) == IF RLt(x, Zero) THEN RSub(Zero, x) ELSE x

\* Array.prototype.reduce((sum, r) => sum + r, 0) over the values f[i], i in ids.
RECURSIVE reduceSum(_, _)
reduceSum(f, ids) ==
  IF ids = {} THEN Zero
  ELSE LET i == CHOOSE j \in ids : TRUE
       IN RAdd(f[i], reduceSum(f, ids \ {i}))

\* The callback of rMultiples' map.
rMultiple(pos) ==
  LET risk == RAbs(RSub(pos.entryPrice,
                        IF ~IsNull(pos.sl) /\ Truthy(Val(pos.sl)) THEN Val(pos.sl) ELSE Zero))
  IN IF risk = Zero THEN Zero
     ELSE RDiv(RDiv(pos.realizedPnl, pos.qty), risk)

avgRMultiple(S) ==
  LET closedPositions == {i \in DOMAIN S.positions : S.positions[i].status = "CLOSED"}
      withSl == {i \in closedPositions : ~IsNull(S.positions[i].sl)}
      rMultiples == [i \in withSl |-> rMultiple(S.positions[i])]
  IN IF Cardinality(withSl) > 0
     THEN RDiv(reduceSum(rMultiples, withSl), Num(Cardinality(withSl)))
     ELSE Zero

GetStats ==
  /\ Tock
  /\ UNCHANGED clients
  /\ getDb
  /\ last' = [Response("stats", 0, 200, "", FALSE) EXCEPT
                !.stats = Some([avgRMultiple |-> avgRMultiple(Store)])]
  /\ StoreUnchanged
  /\ UNCHANGED <<settings, now, engineUp, priceCache, subscribedSymbols, closing, sessionVars>>

\* -------------------------------------------------------- GET /positions/{id}
GetPosition(id) ==
  /\ Tock
  /\ UNCHANGED clients
  /\ getDb
  /\ last' = IF IsNull(getPositionById(Store, id))
             THEN Response("get", id, 404, "Position not found", FALSE)
             ELSE Response("get", id, 200, "", FALSE)
  /\ StoreUnchanged
  /\ UNCHANGED <<settings, now, engineUp, priceCache, subscribedSymbols, closing, sessionVars>>

\* ------------------------------------------------------ PATCH /positions/{id}
PatchPosition(id, body) ==
  /\ Tock
  /\ UNCHANGED clients
  /\ UNCHANGED <<settings, now, engineUp, priceCache, subscribedSymbols, closing, sessionVars>>
  /\ getDb
  /\ IF updatePositionThrows(Store, id, body)
     THEN /\ last' = Response("patch", id, 500, "Failed to update position", TRUE)
          /\ StoreUnchanged
     ELSE
       LET r == updatePosition(Store, id, body, now)
       IN /\ SetStore(r.S)
          /\ last' = IF IsNull(r.ret) THEN Response("patch", id, 404, "Position not found", FALSE)
                     ELSE Response("patch", id, 200, "", FALSE)

\* ----------------------------------------------------- DELETE /positions/{id}
DeletePosition(id) ==
  /\ Tock
  /\ UNCHANGED clients
  /\ UNCHANGED <<settings, now, engineUp, priceCache, subscribedSymbols, closing, sessionVars>>
  /\ getDb
  /\ LET r == deletePosition(Store, id)
     IN /\ SetStore(r.S)
        /\ last' = IF r.ret THEN Response("delete", id, 200, "", FALSE)
                   ELSE Response("delete", id, 404, "Position not found", FALSE)

\* --------------------------------------------------------------- settings
updateSettings(row, data) ==
  [row EXCEPT !.takerFee = IF data.hasTakerFee THEN data.takerFee ELSE @]

UpdateSettings(data) ==
  /\ Tock
  /\ UNCHANGED clients
  /\ settings' = updateSettings(settings, data)
  /\ settings' # settings
  /\ last' = Response("settings", 0, 200, "", FALSE)
  /\ StoreUnchanged
  /\ UNCHANGED <<now, engineUp, priceCache, subscribedSymbols, closing, sessionVars>>
  /\ getDb

\* The columns of the settings table.
SettingsColumns ==
  {"id", "takerFee", "makerFee", "enableFunding", "baseBalance", "numberFormat", "timezone",
   "defaultStopLossPercent", "defaultTakeProfitPercent"}

\* The columns named by the UPDATE statement of POST /settings.
PostSettingsColumns ==
  {"takerFee", "makerFee", "fundingEnabled", "baseBalance", "decimalPlaces", "timezone",
   "defaultStopLossPercent", "defaultTakeProfitPercent", "id"}

\* db.prepare compiles the statement and throws on a column the table lacks.
prepareThrows(columns) == ~(columns \subseteq SettingsColumns)

\* POST /settings.  body = [hasTakerFee, takerFee, hasBaseBalance, baseBalance]:
\* a field that is absent takes the default of the destructuring.
PostSettings(body) ==
  /\ Tock
  /\ UNCHANGED clients
  /\ getDb
  /\ LET takerFee == IF body.hasTakerFee THEN body.takerFee ELSE Rat(4, 10000)
         baseBalance == IF body.hasBaseBalance THEN body.baseBalance ELSE Num(10000)
     IN IF prepareThrows(PostSettingsColumns)
        THEN /\ last' = Response("settings", 0, 500, "Failed to save settings", TRUE)
             /\ UNCHANGED settings
        ELSE /\ last' = Response("settings", 0, 200, "", FALSE)
             /\ settings' = [settings EXCEPT !.takerFee = takerFee,
                                             !.makerFee = Rat(2, 10000),
                                             !.baseBalance = baseBalance]
  /\ StoreUnchanged
  /\ UNCHANGED <<now, engineUp, priceCache, subscribedSymbols, closing, sessionVars>>

\* -------------------------------------------------------------------- tick
\* handlePriceUpdate for one mark-price message of a subscribed stream.
Tick(symbol, markPrice) ==
  /\ Tock
  /\ engineUp
  /\ ws = "OPEN"
  /\ toLowerCase(symbol) \in subscribedSymbols
  /\ LET sym == toUpperCase(symbol)
     IN /\ priceCache' = [k \in DOMAIN priceCache \cup {sym} |->
                            IF k = sym THEN markPrice ELSE priceCache[k]]
        /\ \E order \in RowOrders(Store, OpenIdsOf(Store, sym)) :
             LET E == checkTriggersForSymbol(
                        [S |-> Store, feed |-> Feed, fired |-> <<>>],
                        order, markPrice, now)
             IN /\ SetStore(E.S)
                /\ subscribedSymbols' = E.feed.subs
                /\ \E rows \in RowOrders(E.S, OpenIdsOf(E.S, symbol)) :
                     clients' = fanOut(clients, E.S, E.fired, rows, symbol, markPrice,
                                       steps + 1)
                /\ last' = [Response("tick", 0, 0, "", FALSE) EXCEPT
                              !.symbol = symbol, !.mark = Some(markPrice),
                              !.fired = E.fired, !.sent = E.feed.sent,
                              !.emitted = <<"priceUpdate">>]
  /\ getDb
  /\ UNCHANGED <<settings, now, engineUp, closing, sessionVars>>

\* handlePriceUpdate for a message on which the closure of the OPEN position
\* failId, whose SL or TP is hit, fails at the statement numbered fault.
TickStorageError(symbol, markPrice, failId, fault) ==
  /\ Tock
  /\ engineUp
  /\ ws = "OPEN"
  /\ toLowerCase(symbol) \in subscribedSymbols
  /\ failId \in OpenIdsOf(Store, toUpperCase(symbol))
  /\ \/ shouldTriggerSL(positions[failId].side, markPrice, positions[failId].sl)
     \/ shouldTriggerTP(positions[failId].side, markPrice, positions[failId].tp)
  /\ LET sym == toUpperCase(symbol)
     IN /\ priceCache' = [k \in DOMAIN priceCache \cup {sym} |->
                            IF k = sym THEN markPrice ELSE priceCache[k]]
        /\ \E order \in RowOrders(Store, OpenIdsOf(Store, sym)) :
             LET E == checkTriggersLoopThrows(
                        [S |-> Store, feed |-> Feed, fired |-> <<>>],
                        [i \in DOMAIN order |-> positions[order[i]]],
                        markPrice, now, failId, fault)
             IN /\ SetStore(E.S)
                /\ subscribedSymbols' = E.feed.subs
                /\ \E rows \in RowOrders(E.S, OpenIdsOf(E.S, symbol)) :
                     clients' = fanOut(clients, E.S, E.fired, rows, symbol, markPrice,
                                       steps + 1)
                /\ last' = [Response("tick", 0, 0, "Failed to execute trigger", TRUE) EXCEPT
                              !.symbol = symbol, !.mark = Some(markPrice),
                              !.fired = E.fired, !.sent = E.feed.sent,
                              !.emitted = <<"priceUpdate">>]
  /\ getDb
  /\ UNCHANGED <<settings, now, engineUp, closing, sessionVars>>

\* The message handler of the socket: parse, handleMessage, and for a price
\* update the engine's listener.  Whatever is thrown is caught and logged.
OnMessage(data) ==
  LET message == JSONparse(data)
      outcome == IF IsNull(message) THEN "throws" ELSE handleMessage(Val(message))
  IN IF outcome = "priceUpdate"
     THEN Tick(Val(message).s, Val(message).p)
     ELSE /\ ws = "OPEN"
          /\ last' = Response("message", 0, 0,
                               IF outcome = "throws" THEN "Failed to parse WebSocket message"
                               ELSE IF outcome = "confirmed" THEN "Subscription confirmed"
                               ELSE "",
                               FALSE)
          /\ StoreUnchanged
          /\ UNCHANGED <<settings, now, engineUp, priceCache, subscribedSymbols, closing,
                         sessionVars, boot, clients, steps>>

\* ----------------------------------------------------------- socket session
\* The socket's open event: the feed's handler, then the engine's listener
\* of 'connected', which runs resubscribeOpenPositions.
WsOpen ==
  /\ ws = "CONNECTING"
  /\ UNCHANGED clients
  /\ ws' = "OPEN"
  /\ reconnectAttempts' = 0
  /\ pingInterval' = TRUE
  /\ \E order \in RowOrders(Store, AllOpenIds(Store)) :
       LET F1 == resubscribeAll([Feed EXCEPT !.open = TRUE])
           F2 == resubscribeOpenPositions(Store, F1, order)
       IN /\ subscribedSymbols' = F2.subs
          /\ last' = [Response("ws-open", 0, 0, "", FALSE) EXCEPT
                        !.sent = F2.sent, !.emitted = <<"connected">>]
  /\ getDb
  /\ StoreUnchanged
  /\ UNCHANGED <<settings, now, engineUp, priceCache, closing, detached, reconnectTimeout,
                 isIntentionallyClosed, steps>>

\* The close event that leaves the ping timer running.
WsCloseKeepsPing ==
  /\ ws \in {"CONNECTING", "OPEN"}
  /\ UNCHANGED clients
  /\ ws' = "CLOSED"
  /\ LET R0 == [attempts |-> reconnectAttempts, timeout |-> reconnectTimeout, emitted |-> <<>>]
         R == IF ~isIntentionallyClosed THEN scheduleReconnect(R0) ELSE R0
     IN /\ reconnectAttempts' = R.attempts
        /\ reconnectTimeout' = R.timeout
        /\ last' = [Response("ws-close", 0, 0, "", FALSE) EXCEPT
                      !.emitted = Append(R.emitted, "disconnected")]
  /\ StoreUnchanged
  /\ UNCHANGED <<settings, now, engineUp, priceCache, subscribedSymbols, closing, detached,
                 isIntentionallyClosed, pingInterval, boot, steps>>

\* The close event of the client's socket: the session is lost, or a
\* connection attempt has failed.
WsClose ==
  /\ ws \in {"CONNECTING", "OPEN"}
  /\ UNCHANGED clients
  /\ ws' = "CLOSED"
  /\ pingInterval' = FALSE
  /\ LET R0 == [attempts |-> reconnectAttempts, timeout |-> reconnectTimeout, emitted |-> <<>>]
         R == IF ~isIntentionallyClosed THEN scheduleReconnect(R0) ELSE R0
     IN /\ reconnectAttempts' = R.attempts
        /\ reconnectTimeout' = R.timeout
        /\ last' = [Response("ws-close", 0, 0, "", FALSE) EXCEPT
                      !.emitted = Append(R.emitted, "disconnected")]
  /\ StoreUnchanged
  /\ UNCHANGED <<settings, now, engineUp, priceCache, subscribedSymbols, closing, detached,
                 isIntentionallyClosed, boot, steps>>

\* The close event of a socket that close() has dropped.
DetachedClose ==
  /\ detached
  /\ UNCHANGED clients
  /\ detached' = FALSE
  /\ pingInterval' = FALSE
  /\ LET R0 == [attempts |-> reconnectAttempts, timeout |-> reconnectTimeout, emitted |-> <<>>]
         R == IF ~isIntentionallyClosed THEN scheduleReconnect(R0) ELSE R0
     IN /\ reconnectAttempts' = R.attempts
        /\ reconnectTimeout' = R.timeout
        /\ last' = [Response("ws-close", 0, 0, "", FALSE) EXCEPT
                      !.emitted = Append(R.emitted, "disconnected")]
  /\ StoreUnchanged
  /\ UNCHANGED <<settings, now, engineUp, priceCache, subscribedSymbols, closing, ws,
                 isIntentionallyClosed, boot, steps>>

\* The reconnect timer fires and calls connect().  reconnectTimeout stands
\* for the pending timer; the handle the code keeps after it fired is inert.
ReconnectTimer ==
  /\ ~IsNull(reconnectTimeout)
  /\ UNCHANGED clients
  /\ reconnectTimeout' = None
  /\ IF ws = "OPEN"
     THEN UNCHANGED <<ws, isIntentionallyClosed>>
     ELSE ws' = "CONNECTING" /\ isIntentionallyClosed' = FALSE
  /\ last' = Response("reconnect", 0, 0, "", FALSE)
  /\ StoreUnchanged
  /\ UNCHANGED <<settings, now, engineUp, priceCache, subscribedSymbols, closing, detached,
                 reconnectAttempts, pingInterval, boot, steps>>

\* close() that leaves a pending reconnect timer alone.
CloseKeepsTimer ==
  /\ engineUp
  /\ UNCHANGED clients
  /\ isIntentionallyClosed' = TRUE
  /\ pingInterval' = FALSE
  /\ detached' = (detached \/ ws \in {"CONNECTING", "OPEN"})
  /\ ws' = "NULL"
  /\ subscribedSymbols' = {}
  /\ last' = Response("ws-shutdown", 0, 0, "", FALSE)
  /\ StoreUnchanged
  /\ UNCHANGED <<settings, now, engineUp, priceCache, closing, reconnectAttempts,
                 reconnectTimeout, boot, steps>>

\* BinanceWebSocketClient.close() on the client the process holds.
Close ==
  /\ engineUp
  /\ UNCHANGED clients
  /\ isIntentionallyClosed' = TRUE
  /\ reconnectTimeout' = None
  /\ pingInterval' = FALSE
  /\ detached' = (detached \/ ws \in {"CONNECTING", "OPEN"})
  /\ ws' = "NULL"
  /\ subscribedSymbols' = {}
  /\ last' = Response("ws-shutdown", 0, 0, "", FALSE)
  /\ StoreUnchanged
  /\ UNCHANGED <<settings, now, engineUp, priceCache, closing, reconnectAttempts, boot, steps>>

\* TriggerEngine.subscribeToSymbol / unsubscribeFromSymbol called on their own.
SubscribeToSymbol(symbol) ==
  /\ engineUp
  /\ UNCHANGED clients
  /\ LET F1 == subscribe(Feed, symbol)
     IN /\ subscribedSymbols' = F1.subs
        /\ last' = [Response("subscribe", 0, 0, "", FALSE) EXCEPT
                      !.symbol = symbol, !.sent = F1.sent]
  /\ StoreUnchanged
  /\ UNCHANGED <<settings, now, engineUp, priceCache, closing, sessionVars, boot, steps>>

UnsubscribeFromSymbol(symbol) ==
  /\ engineUp
  /\ UNCHANGED clients
  /\ LET F1 == unsubscribe(Feed, symbol)
     IN /\ subscribedSymbols' = F1.subs
        /\ last' = [Response("unsubscribe", 0, 0, "", FALSE) EXCEPT
                      !.symbol = symbol, !.sent = F1.sent]
  /\ StoreUnchanged
  /\ UNCHANGED <<settings, now, engineUp, priceCache, closing, sessionVars, boot, steps>>

\* ------------------------------------------------------- startup and restart
\* initializeAppAsync's timer has run out: initializeApp.
InitializeApp ==
  /\ boot = "scheduled"
  /\ UNCHANGED clients
  /\ boot' = "done"
  /\ IF AllOpenIds(Store) = {}
     THEN /\ last' = Response("initialize", 0, 0, "", FALSE)
          /\ UNCHANGED <<engineUp, subscribedSymbols, sessionVars>>
     ELSE \E order \in RowOrders(Store, AllOpenIds(Store)) :
            LET F1 == getTriggerEngine(Store, Feed)
                F2 == resubscribeOpenPositions(Store, F1, order)
            IN /\ engineUp' = TRUE
               /\ SessionAfterGet
               /\ subscribedSymbols' = F2.subs
               /\ last' = [Response("initialize", 0, 0, "", FALSE) EXCEPT !.sent = F2.sent]
  /\ StoreUnchanged
  /\ UNCHANGED <<settings, now, priceCache, closing, steps>>

\* The process stops and starts again: the database file stays, everything
\* held in memory is as at the start.
Restart ==
  /\ Tock
  /\ engineUp' = FALSE
  /\ priceCache' = <<>>
  /\ subscribedSymbols' = {}
  /\ closing' = [i \in Ids |-> 0]
  /\ ws' = "NULL"
  /\ detached' = FALSE
  /\ reconnectAttempts' = 0
  /\ reconnectTimeout' = None
  /\ isIntentionallyClosed' = FALSE
  /\ pingInterval' = FALSE
  /\ boot' = "idle"
  /\ clients' = [c \in DOMAIN clients |-> Gone(clients[c])]
  /\ last' = Response("restart", 0, 0, "", FALSE)
  /\ StoreUnchanged
  /\ UNCHANGED <<settings, now>>

\* ------------------------------------------------------------------- clock
Advance ==
  /\ Tock
  /\ UNCHANGED clients
  /\ now < MaxTime
  /\ now' = now + 1
  /\ UNCHANGED <<positions, fills, events, nextId, settings, engineUp, priceCache,
                 subscribedSymbols, closing, sessionVars, boot, last>>

\* -------------------------------------------------------------------- Next
Next ==
  \/ \E body \in TradeBodies, fetch \in FetchOutcomes :
       /\ nextId <= MaxPositions
       /\ UsesLimitPrice(body) => IsNull(fetch)
       /\ PostPosition(body, fetch)
  \/ \E id \in Ids : CloseStart(id)
  \/ \E id \in Ids, fetch \in FetchOutcomes :
       CloseResume(id, IF id \in DOMAIN positions THEN positions[id].qty ELSE Zero, fetch)
  \/ \E id \in Ids, body \in Patches : PatchPosition(id, body)
  \/ \E id \in Ids : DeletePosition(id)
  \/ \E fee \in TakerFees : UpdateSettings([hasTakerFee |-> TRUE, takerFee |-> fee])
  \/ \E symbol \in TickSymbols, markPrice \in Prices : Tick(symbol, markPrice)
  \/ WsOpen
  \/ Advance

Spec == Init /\ [][Next]_vars

\* The create route on its own, over requests with one field off.
NextCreate ==
  \/ \E body \in OddBodies \cup {BaseBody}, fetch \in FetchOutcomes :
       /\ nextId <= MaxPositions
       /\ UsesLimitPrice(body) => IsNull(fetch)
       /\ PostPosition(body, fetch)
  \/ \E symbol \in TickSymbols, markPrice \in Prices : Tick(symbol, markPrice)
  \/ \E id \in Ids : DeletePosition(id)
  \/ WsOpen
  \/ Advance

SpecCreate == Init /\ [][NextCreate]_vars

\* Requests with one SL/TP pair, for the runs across restarts.
StartBodies == {BaseBody, [BaseBody EXCEPT !.sl = Some(Num(1)), !.tp = Some(Num(MaxPrice))]}

\* The process across restarts: requests, ticks, the recovery timer.
NextRestart ==
  \/ \E body \in StartBodies : nextId <= MaxPositions /\ PostPosition(body, None)
  \/ \E id \in Ids : CloseStart(id)
  \/ \E id \in Ids, fetch \in FetchOutcomes :
       CloseResume(id, IF id \in DOMAIN positions THEN positions[id].qty ELSE Zero, fetch)
  \/ ListPositions
  \/ \E symbol \in TickSymbols, markPrice \in Prices : Tick(symbol, markPrice)
  \/ WsOpen
  \/ InitializeApp
  \/ Restart

SpecRestart == Init /\ [][NextRestart]_vars

ETHUSDT == <<"E", "T", "H", "U", "S", "D", "T">>

\* Symbols as callers may pass them to the feed.
FeedSymbols == {BTCUSDT, btcusdt, ETHUSDT}

\* The feed once getTriggerEngine() has constructed it on an empty store:
\* connect() has made a socket that is still CONNECTING.
InitFeed ==
  /\ positions = <<>>
  /\ fills = <<>>
  /\ events = <<>>
  /\ nextId = 1
  /\ settings = [takerFee |-> Rat(4, 10000), makerFee |-> Rat(2, 10000),
                 enableFunding |-> FALSE, baseBalance |-> Num(10000)]
  /\ now = 1
  /\ engineUp = TRUE
  /\ priceCache = <<>>
  /\ subscribedSymbols = {}
  /\ closing = [i \in Ids |-> 0]
  /\ ws = "CONNECTING"
  /\ detached = FALSE
  /\ reconnectAttempts = 0
  /\ reconnectTimeout = None
  /\ isIntentionallyClosed = FALSE
  /\ pingInterval = FALSE
  /\ boot = "scheduled"
  /\ clients = [c \in ClientIds |-> NewClient]
  /\ steps = 0
  /\ last = Response("init", 0, 0, "", FALSE)

\* The feed driven through its interface and by its socket and timer.
NextFeed ==
  \/ \E symbol \in FeedSymbols : SubscribeToSymbol(symbol)
  \/ \E symbol \in FeedSymbols : UnsubscribeFromSymbol(symbol)
  \/ WsOpen
  \/ WsClose
  \/ DetachedClose
  \/ ReconnectTimer
  \/ Close

SpecFeed == InitFeed /\ [][NextFeed]_vars

\* Positions, ticks and the sessions of GET /stream.
NextStream ==
  \/ \E body \in StartBodies : nextId <= MaxPositions /\ PostPosition(body, None)
  \/ \E symbol \in TickSymbols, markPrice \in Prices : Tick(symbol, markPrice)
  \/ WsOpen
  \/ \E c \in ClientIds : StreamConnect(c)
  \/ \E c \in ClientIds : Heartbeat(c)
  \/ \E c \in ClientIds : Abort(c)

SpecStream == Init /\ [][NextStream]_vars

\* The heartbeat timer of a session fires as long as it runs.
SpecLive == SpecStream /\ \A c \in ClientIds : WF_vars(Heartbeat(c))

\* The routes that take a position id, with one create to fill the store.
NextById ==
  \/ \E body \in StartBodies : nextId <= MaxPositions /\ PostPosition(body, None)
  \/ \E id \in Ids : GetPosition(id)
  \/ \E id \in Ids, body \in Patches : PatchPosition(id, body)
  \/ \E id \in Ids : DeletePosition(id)
  \/ \E id \in Ids : CloseStart(id)
  \/ \E id \in Ids, fetch \in FetchOutcomes :
       CloseResume(id, IF id \in DOMAIN positions THEN positions[id].qty ELSE Zero, fetch)

SpecById == Init /\ [][NextById]_vars

\* Request bodies of POST /settings: a new taker fee, a new balance, or both.
SettingsBodies ==
  {[hasTakerFee |-> TRUE, takerFee |-> Rat(1, 1000), hasBaseBalance |-> FALSE,
    baseBalance |-> Zero],
   [hasTakerFee |-> FALSE, takerFee |-> Zero, hasBaseBalance |-> TRUE,
    baseBalance |-> Num(5000)],
   [hasTakerFee |-> TRUE, takerFee |-> Rat(1, 1000), hasBaseBalance |-> TRUE,
    baseBalance |-> Num(5000)]}

\* The settings route, with creates and manual closes that charge the fee.
NextSettings ==
  \/ \E body \in SettingsBodies : PostSettings(body)
  \/ \E body \in StartBodies : nextId <= MaxPositions /\ PostPosition(body, None)
  \/ \E id \in Ids : CloseStart(id)
  \/ \E id \in Ids, fetch \in FetchOutcomes :
       CloseResume(id, IF id \in DOMAIN positions THEN positions[id].qty ELSE Zero, fetch)

SpecSettings == Init /\ [][NextSettings]_vars

\* Long positions with no stop, a stop below the entry, a stop at the entry.
StatsBodies ==
  {BaseBody, [BaseBody EXCEPT !.sl = Some(Num(1))], [BaseBody EXCEPT !.sl = Some(EntryLevel)]}

\* Creates, ticks that close by stop loss, and the statistics request.
NextStats ==
  \/ \E body \in StatsBodies : nextId <= MaxPositions /\ PostPosition(body, None)
  \/ \E symbol \in TickSymbols, markPrice \in Prices : Tick(symbol, markPrice)
  \/ WsOpen
  \/ GetStats

SpecStats == Init /\ [][NextStats]_vars

\* The statements of createPosition and of closePosition.
Faults == 1..3

\* Creates and manual closes, with storage errors at their writes.
NextStorage ==
  \/ \E body \in StartBodies : nextId <= MaxPositions /\ PostPosition(body, None)
  \/ \E body \in StartBodies, fault \in Faults :
       nextId <= MaxPositions /\ PostPositionStorageError(body, fault)
  \/ \E id \in Ids : CloseStart(id)
  \/ \E id \in Ids, fetch \in FetchOutcomes :
       CloseResume(id, IF id \in DOMAIN positions THEN positions[id].qty ELSE Zero, fetch)
  \/ \E id \in Ids, fetch \in FetchOutcomes, fault \in Faults :
       CloseResumeStorageError(id, IF id \in DOMAIN positions THEN positions[id].qty ELSE Zero,
                               fetch, fault)

SpecStorage == Init /\ [][NextStorage]_vars

\* Stream sessions, some cancelled by their consumer, with creates and ticks.
NextCancel ==
  \/ \E body \in StartBodies : nextId <= MaxPositions /\ PostPosition(body, None)
  \/ WsOpen
  \/ \E symbol \in TickSymbols, markPrice \in Prices : Tick(symbol, markPrice)
  \/ \E c \in ClientIds : StreamConnect(c)
  \/ \E c \in ClientIds : Cancel(c)

SpecCancel == Init /\ [][NextCancel]_vars

\* Two positions with a stop, ticks, ticks on which one closure fails, and
\* stream sessions.
NextIsolation ==
  \/ nextId <= MaxPositions
       /\ PostPosition([BaseBody EXCEPT !.sl = Some(Num(1)), !.tp = Some(Num(MaxPrice))], None)
  \/ WsOpen
  \/ \E symbol \in TickSymbols, markPrice \in Prices : Tick(symbol, markPrice)
  \/ \E symbol \in TickSymbols, markPrice \in Prices, failId \in Ids, fault \in Faults :
       TickStorageError(symbol, markPrice, failId, fault)
  \/ \E c \in ClientIds : StreamConnect(c)

SpecIsolation == Init /\ [][NextIsolation]_vars

\* Requests that open positions on two symbols, one of them spelled twice.
SessionBodies ==
  {[BaseBody EXCEPT !.symbol = btcusdt],
   [BaseBody EXCEPT !.tp = Some(Num(MaxPrice))],
   [BaseBody EXCEPT !.symbol = ETHUSDT]}

\* What the server may send: text that is not JSON, null, confirmations of a
\* request (the second with no id), an event of another stream, an object with
\* no known member, and mark prices.
InboundFrames ==
  {NotJson,
   Json(Value(TRUE, "undefined", 0, "undefined", <<>>, Zero)),
   Json(Value(FALSE, "null", 1, "undefined", <<>>, Zero)),
   Json(Value(FALSE, "null", 0, "undefined", <<>>, Zero)),
   Json(Value(FALSE, "undefined", 0, "aggTrade", BTCUSDT, Num(MaxPrice))),
   Json(Value(FALSE, "undefined", 0, "undefined", <<>>, Zero))}
  \cup {Json(Value(FALSE, "undefined", 0, "markPriceUpdate", symbol, markPrice)) :
          symbol \in TickSymbols, markPrice \in Prices}

\* Positions, messages and a session that is lost and comes back.
NextSession ==
  \/ \E body \in SessionBodies : nextId <= MaxSessionPositions /\ PostPosition(body, None)
  \/ \E data \in InboundFrames : OnMessage(data)
  \/ WsOpen
  \/ WsClose
  \/ ReconnectTimer

SpecSession == Init /\ [][NextSession]_vars

\* The running process after its recovery timer: requests, edits, deletes,
\* ticks.
NextMonitor ==
  \/ \E body \in SessionBodies : nextId <= MaxPositions /\ PostPosition(body, None)
  \/ \E id \in Ids : CloseStart(id)
  \/ \E id \in Ids, fetch \in FetchOutcomes :
       CloseResume(id, IF id \in DOMAIN positions THEN positions[id].qty ELSE Zero, fetch)
  \/ \E id \in Ids, body \in Patches : PatchPosition(id, body)
  \/ \E id \in Ids : DeletePosition(id)
  \/ \E symbol \in TickSymbols, markPrice \in Prices : Tick(symbol, markPrice)
  \/ WsOpen
  \/ InitializeApp

SpecMonitor == Init /\ [][NextMonitor]_vars

\* ============================================================== properties
\* The trigger predicates as the specification's table gives them.
SlHolds(p, mark) ==
  /\ ~IsNull(p.sl)
  /\ IF p.side = "LONG" THEN RLe(mark, Val(p.sl)) ELSE RLe(Val(p.sl), mark)

TpHolds(p, mark) ==
  /\ ~IsNull(p.tp)
  /\ IF p.side = "LONG" THEN RLe(Val(p.tp), mark) ELSE RLe(mark, Val(p.tp))

CloseFillsOf(id) == {i \in DOMAIN fills : fills[i].positionId = id /\ fills[i].type = "CLOSE"}

TerminalEventsOf(id) ==
  {i \in DOMAIN events : events[i].positionId = id /\ events[i].event \in TerminalEvents}

\* Ids the positions table has ever issued.
IssuedIds == 1..(nextId - 1)

IsClosed(id) == id \in DOMAIN positions /\ positions[id].status = "CLOSED"

\* C1: every position ever created has at most one CLOSE fill and at most one
\* terminal event, and closePosition on a CLOSED row returns null and leaves
\* the store as it is.
C1_AtMostOnceClosure ==
  /\ \A id \in IssuedIds :
       /\ Cardinality(CloseFillsOf(id)) <= 1
       /\ Cardinality(TerminalEventsOf(id)) <= 1
  /\ \A id \in DOMAIN positions :
       positions[id].status = "CLOSED" =>
         \A price \in Prices, ev \in TerminalEvents :
           closePosition(Store, id, price, Zero, ev, now) = [S |-> Store, ret |-> None]

\* A manual close reached closePosition after the position had been closed:
\* it got null, and the position still has its one CLOSE fill and one event.
C1_Witness ==
  /\ last.op = "close" /\ last.status = 500 /\ ~last.details
  /\ IsClosed(last.id)
  /\ Cardinality(CloseFillsOf(last.id)) = 1
  /\ Cardinality(TerminalEventsOf(last.id)) = 1

\* C2: a manual close of an existing position that does not fail upstream
\* answers with the closed position (200) or, when the position is already
\* closed by the time it reaches the store, with the 400 Conflict: never 500.
C2_LostCloseIsConflict ==
  (last.op = "close" /\ last.id \in DOMAIN positions /\ ~last.details)
    => last.status \in {200, 400}

\* C3: for a CLOSED position realizedPnl + feesOpen + feesClose + fundingPnl
\* is (closePrice - entryPrice) * qty for LONG and the negation for SHORT,
\* feesClose being the fee of its CLOSE fill.
C3_PnlDeterminism ==
  \A id \in DOMAIN positions :
    LET p == positions[id]
        gross == IF p.side = "LONG"
                 THEN RMul(RSub(Val(p.closePrice), p.entryPrice), p.qty)
                 ELSE RMul(RSub(p.entryPrice, Val(p.closePrice)), p.qty)
    IN p.status = "CLOSED" =>
         /\ RAdd(RAdd(RAdd(p.realizedPnl, p.feesOpen), p.feesClose), p.fundingPnl) = gross
         /\ \A i \in CloseFillsOf(id) : fills[i].fee = p.feesClose

\* A SHORT position closed away from its entry price with fees on both legs.
C3_Witness ==
  \E id \in DOMAIN positions :
    /\ positions[id].status = "CLOSED" /\ positions[id].side = "SHORT"
    /\ Val(positions[id].closePrice) # positions[id].entryPrice
    /\ RLt(Zero, positions[id].feesOpen) /\ RLt(Zero, positions[id].feesClose)
    /\ CloseFillsOf(id) # {}

\* The tick a step processes, when the step is a tick.
IsTick == last'.op = "tick"
TickSym == toUpperCase(last'.symbol)
TickMark == Val(last'.mark)

FiredFor(fired, id) == {i \in DOMAIN fired : fired[i].positionId = id}

\* C4: when a tick is processed and both the SL and the TP predicate of an
\* OPEN position of its symbol hold, the position is closed with SL_TRIGGERED
\* and not TP_TRIGGERED; no position has two triggers fired by one tick.
C4_StopsTakePriority ==
  [][IsTick =>
       /\ \A id \in OpenIdsOf(Store, TickSym) :
            (SlHolds(positions[id], TickMark) /\ TpHolds(positions[id], TickMark)) =>
              /\ positions'[id].status = "CLOSED"
              /\ \A i \in DOMAIN events' :
                   events'[i].positionId = id => events'[i].event # "TP_TRIGGERED"
              /\ \E i \in DOMAIN events' :
                   events'[i].positionId = id /\ events'[i].event = "SL_TRIGGERED"
              /\ \A i \in FiredFor(last'.fired, id) : last'.fired[i].event = "SL_TRIGGERED"
       /\ \A id \in IssuedIds : Cardinality(FiredFor(last'.fired, id)) <= 1]_vars

\* A tick fired SL_TRIGGERED for a position whose TP predicate held as well.
C4_Witness ==
  /\ last.op = "tick"
  /\ \E i \in DOMAIN last.fired :
       LET id == last.fired[i].positionId
       IN /\ last.fired[i].event = "SL_TRIGGERED"
          /\ id \in DOMAIN positions
          /\ SlHolds(positions[id], Val(last.mark))
          /\ TpHolds(positions[id], Val(last.mark))

C6_NoSpuriousClosure ==
  [][IsTick =>
       \A id \in DOMAIN positions \cap DOMAIN positions' :
         (positions[id].status = "OPEN" /\ positions'[id].status = "CLOSED") =>
           /\ positions[id].symbol = TickSym
           /\ SlHolds(positions[id], TickMark) \/ TpHolds(positions[id], TickMark)
           /\ positions'[id].closePrice = Some(TickMark)
           /\ \A i \in DOMAIN events' :
                (events'[i].positionId = id /\ events'[i].event \in TerminalEvents) =>
                  events'[i].event = IF SlHolds(positions[id], TickMark)
                                     THEN "SL_TRIGGERED" ELSE "TP_TRIGGERED"]_vars

\* A tick closed a position by TP at a mark price that differs from the price
\* the position was opened at, while its SL predicate did not hold.
C6_Witness ==
  /\ last.op = "tick"
  /\ \E i \in DOMAIN last.fired :
       LET id == last.fired[i].positionId
       IN /\ last.fired[i].event = "TP_TRIGGERED"
          /\ IsClosed(id)
          /\ ~SlHolds(positions[id], Val(last.mark))
          /\ positions[id].closePrice = last.mark
          /\ positions[id].entryPrice # Val(last.mark)

\* C7: for every stored position, status = OPEN iff closeTime is null iff
\* closePrice is null.
C7_OpenIffNoClose ==
  \A id \in DOMAIN positions :
    /\ positions[id].status \in {"OPEN", "CLOSED"}
    /\ positions[id].status = "OPEN" <=> IsNull(positions[id].closeTime)
    /\ IsNull(positions[id].closeTime) <=> IsNull(positions[id].closePrice)

\* An OPEN and a CLOSED position are stored together.
C7_Witness ==
  \E i, j \in DOMAIN positions :
    positions[i].status = "OPEN" /\ positions[j].status = "CLOSED"

TerminalFields(p) ==
  <<p.status, p.closePrice, p.closeTime, p.feesClose, p.realizedPnl, p.fundingPnl>>

\* C8: a CLOSED position has non-null closePrice and closeTime, and no step
\* changes the terminal fields of a position that is CLOSED and stays stored.
C8_TerminalFieldsFrozen ==
  [][\A id \in DOMAIN positions :
       positions[id].status = "CLOSED" =>
         /\ ~IsNull(positions[id].closePrice) /\ ~IsNull(positions[id].closeTime)
         /\ id \in DOMAIN positions' =>
              TerminalFields(positions'[id]) = TerminalFields(positions[id])]_vars

\* An SL/TP edit was applied to a position that is CLOSED.
C8_Witness ==
  /\ last.op = "patch" /\ last.status = 200
  /\ IsClosed(last.id)
  /\ \E i \in DOMAIN events :
       events[i].positionId = last.id /\ events[i].event \in {"SL_UPDATED", "TP_UPDATED"}

\* C9: PATCH on a CLOSED position is answered with an error, leaves sl and tp
\* as they are and appends no event.
C9_EditOfClosedRejected ==
  [][(last'.op = "patch" /\ IsClosed(last'.id)) =>
       /\ last'.status >= 400
       /\ positions'[last'.id].sl = positions[last'.id].sl
       /\ positions'[last'.id].tp = positions[last'.id].tp
       /\ events' = events]_vars

\* The requests the create validation is to reject.
InvalidRequest(body) ==
  \/ ~isValidSymbolFormat(body.symbol)
  \/ body.side \notin {"LONG", "SHORT"}
  \/ body.leverage < 1 \/ body.leverage > 125
  \/ RLe(body.sizeValue, Zero)
  \/ body.entryType = "LIMIT" /\ ~IsNull(body.limitPrice) /\ RLe(Val(body.limitPrice), Zero)

\* C10: an invalid create request is answered 400 and writes no position,
\* fill or event and leaves the subscription set as it is.
C10_InvalidCreateRejected ==
  [][\A body \in OddBodies, fetch \in FetchOutcomes :
       (InvalidRequest(body) /\ PostPosition(body, fetch)) =>
         /\ last'.status = 400
         /\ UNCHANGED <<positions, fills, events, subscribedSymbols>>]_vars

\* C11: every stored position has qty > 0, entryPrice > 0 and leverage >= 1.
C11_PositiveQuantities ==
  \A id \in DOMAIN positions :
    /\ RLt(Zero, positions[id].qty)
    /\ RLt(Zero, positions[id].entryPrice)
    /\ positions[id].leverage >= 1

\* C14: every fill and every event references a stored position, and a
\* DELETE that found its row leaves neither the row nor a fill or event of it.
C14_CascadeDelete ==
  /\ \A i \in DOMAIN fills : fills[i].positionId \in DOMAIN positions
  /\ \A i \in DOMAIN events : events[i].positionId \in DOMAIN positions
  /\ (last.op = "delete" /\ last.status = 200) => last.id \notin DOMAIN positions

\* A position was deleted while another one, with its fills and events,
\* stays stored; what the deleted one had written is gone.
C14_Witness ==
  /\ last.op = "delete" /\ last.status = 200
  /\ last.id \notin DOMAIN positions
  /\ positions # <<>>
  /\ Len(fills) >= 2 /\ Len(events) >= 2
  /\ \A i \in DOMAIN fills : fills[i].positionId # last.id
  /\ \A i \in DOMAIN events : events[i].positionId # last.id

\* Symbols of the OPEN positions as the feed keeps them (lower case).
OpenSymbols == {toLowerCase(positions[i].symbol) : i \in AllOpenIds(Store)}

\* C12: a restart leaves every stored position (so the OPEN ones with their
\* sl and tp) as it was, and when startup recovery has run the subscription
\* set is exactly the set of symbols of the OPEN positions.
C12_RestartFidelity ==
  [][/\ last'.op = "restart" /\ steps' # steps => positions' = positions
     /\ boot # "done" /\ boot' = "done" => subscribedSymbols' = OpenSymbols']_vars

\* The requests that answer a client.
ServedOps == {"create", "close", "list"}

\* C13: when a request has been served, the feed has been told to subscribe
\* to the symbol of every OPEN position in the store.
C13_SubscribedBeforeServing ==
  [][(steps' # steps /\ last'.op \in ServedOps) => OpenSymbols' \subseteq subscribedSymbols']_vars

Streams(symbols) == {Stream(x) : x \in symbols}

SubscribeFrames(sent) == {i \in DOMAIN sent : sent[i].method = "SUBSCRIBE"}

\* A step in which the session becomes OPEN.
Opens == ws # "OPEN" /\ ws' = "OPEN"

\* C15: in every state of the feed, subscribing a symbol whose lower-case
\* form is in the set, and unsubscribing one whose lower-case form is not,
\* changes nothing and sends nothing, and a second application of either
\* gives the set and the frames of the first.
C15_SubscribeIdempotent ==
  \A symbol \in FeedSymbols :
    /\ toLowerCase(symbol) \in subscribedSymbols => subscribe(Feed, symbol) = Feed
    /\ toLowerCase(symbol) \notin subscribedSymbols => unsubscribe(Feed, symbol) = Feed
    /\ subscribe(subscribe(Feed, symbol), symbol) = subscribe(Feed, symbol)
    /\ unsubscribe(unsubscribe(Feed, symbol), symbol) = unsubscribe(Feed, symbol)

\* On an OPEN session a symbol was subscribed that the set already held
\* under another spelling: no frame went out.
C15_Witness ==
  /\ last.op = "subscribe" /\ last.symbol = BTCUSDT
  /\ ws = "OPEN"
  /\ btcusdt \in subscribedSymbols
  /\ last.sent = <<>>

\* C16: a subscribe or unsubscribe puts the symbol in, or takes it out of,
\* the remembered set; on an OPEN session one that changes the set sends its
\* frame in the same step; when the session next becomes OPEN every
\* remembered symbol is in a SUBSCRIBE frame and no other symbol is.
C16_FramesFollowTheSet ==
  [][/\ (last'.op = "subscribe" /\ last' # last) =>
          /\ toLowerCase(last'.symbol) \in subscribedSymbols'
          /\ (ws = "OPEN" /\ subscribedSymbols' # subscribedSymbols) =>
               last'.sent = <<SubscriptionMessage("SUBSCRIBE", Streams({toLowerCase(last'.symbol)}))>>
     /\ (last'.op = "unsubscribe" /\ last' # last) =>
          /\ toLowerCase(last'.symbol) \notin subscribedSymbols'
          /\ (ws = "OPEN" /\ subscribedSymbols' # subscribedSymbols) =>
               last'.sent = <<SubscriptionMessage("UNSUBSCRIBE", Streams({toLowerCase(last'.symbol)}))>>
     /\ Opens =>
          /\ \A x \in subscribedSymbols :
               \E i \in SubscribeFrames(last'.sent) : Stream(x) \in last'.sent[i].params
          /\ \A i \in DOMAIN last'.sent :
               /\ last'.sent[i].method = "SUBSCRIBE"
               /\ last'.sent[i].params \subseteq Streams(subscribedSymbols)]_vars

\* The session came up with two remembered symbols and sent them.
C16_Witness ==
  /\ last.op = "ws-open"
  /\ subscribedSymbols = {btcusdt, toLowerCase(ETHUSDT)}
  /\ Len(last.sent) = 1
  /\ last.sent[1].params = Streams(subscribedSymbols)

\* C17: when the session becomes OPEN with a non-empty remembered set, the
\* SUBSCRIBE frames sent in that step are one frame whose params are the
\* streams of the remembered set.
C17_SingleBulkSubscribe ==
  [][(Opens /\ subscribedSymbols # {}) =>
       /\ Cardinality(SubscribeFrames(last'.sent)) = 1
       /\ \A i \in SubscribeFrames(last'.sent) :
            last'.sent[i].params = Streams(subscribedSymbols)]_vars

\* The delays of the specification's table, in ms, by attempt.
BackoffTable == <<1000, 2000, 4000, 8000, 16000, 30000, 30000, 30000, 30000, 30000>>

\* C18: a reconnect timer is set with the delay the table gives for the
\* attempt now counted, the session becoming OPEN sets the counter to 0, and
\* the loss of an OPEN session counts attempt 1.
C18_BackoffDelays ==
  [][/\ (IsNull(reconnectTimeout) /\ ~IsNull(reconnectTimeout')) =>
          /\ reconnectAttempts' = reconnectAttempts + 1
          /\ reconnectAttempts' \in DOMAIN BackoffTable
          /\ Val(reconnectTimeout') = BackoffTable[reconnectAttempts']
     /\ Opens => reconnectAttempts' = 0
     /\ (ws = "OPEN" /\ ws' = "CLOSED") =>
          reconnectAttempts' = 1 /\ reconnectTimeout' = Some(1000)]_vars

\* The sixth attempt in a row is waiting, with the capped delay.
C18_Witness ==
  /\ reconnectAttempts = 6
  /\ reconnectTimeout = Some(30000)
  /\ ws = "CLOSED"

\* The feed has given up: ten attempts counted, no timer, no socket in use.
Exhausted ==
  /\ ws = "CLOSED"
  /\ reconnectAttempts >= 10
  /\ IsNull(reconnectTimeout)
  /\ ~isIntentionallyClosed

\* C19: the close event of the client's socket sets a reconnect timer as
\* long as fewer than ten attempts are counted since the last OPEN; with ten
\* counted it emits maxReconnectAttemptsReached and sets none, and from then
\* on no timer is set and no socket is opened.
C19_BoundedReconnect ==
  [][/\ (ws \in {"CONNECTING", "OPEN"} /\ ws' = "CLOSED") =>
          IF reconnectAttempts < 10
          THEN /\ ~IsNull(reconnectTimeout')
               /\ reconnectAttempts' = reconnectAttempts + 1
               /\ \A i \in DOMAIN last'.emitted : last'.emitted[i] # "maxReconnectAttemptsReached"
          ELSE /\ \E i \in DOMAIN last'.emitted : last'.emitted[i] = "maxReconnectAttemptsReached"
               /\ Exhausted'
     /\ Exhausted =>
          /\ ws' # "CONNECTING" /\ ws' # "OPEN"
          /\ IsNull(reconnectTimeout')
          /\ Exhausted' \/ isIntentionallyClosed'
     /\ reconnectAttempts' <= 10]_vars

\* The tenth attempt has failed and the terminal signal was emitted.
C19_Witness ==
  /\ Exhausted
  /\ last.op = "ws-close"
  /\ last.emitted = <<"maxReconnectAttemptsReached", "disconnected">>

\* C20: once close() has been called the client holds no socket and no
\* reconnect timer, and stays so: no step sets a timer or opens a socket.
C20_CloseIsPermanent ==
  [][/\ isIntentionallyClosed' => (ws' = "NULL" /\ IsNull(reconnectTimeout'))
     /\ isIntentionallyClosed => isIntentionallyClosed']_vars

\* close() was called on a live socket, and the socket's close event has
\* been delivered since.
C20_Witness ==
  /\ isIntentionallyClosed
  /\ last.op = "ws-close"
  /\ ~detached
  /\ ws = "NULL"

\* In the protocol's terms: the frame is a confirmation of a request, or a
\* mark-price update.
IsAcknowledgement(data) == data.json /\ ~data.value.isNull /\ data.value.result = "null"

IsMarkPrice(data) == data.json /\ ~data.value.isNull /\ data.value.e = "markPriceUpdate"

\* C21: a frame that is not JSON, or is neither a confirmation nor a
\* mark-price update, changes nothing but the log: no tick is produced, the
\* cache, the store, the subscription set, the sessions of the clients and the
\* socket session with its reconnect counter stay as they are, and the socket
\* stays OPEN, so that the messages that follow are handled as before.
C21_BadMessageDropped ==
  [][\A data \in InboundFrames :
       (~IsAcknowledgement(data) /\ ~IsMarkPrice(data) /\ OnMessage(data)) =>
         /\ last'.op = "message" /\ last'.fired = <<>> /\ last'.sent = <<>>
         /\ ws' = "OPEN"
         /\ UNCHANGED <<positions, fills, events, nextId, settings, engineUp, priceCache,
                        subscribedSymbols, sessionVars, clients, steps>>]_vars

\* A frame that is not JSON was dropped while a position is OPEN and its
\* symbol subscribed on an OPEN socket.
C21_Witness ==
  /\ last.op = "message"
  /\ last.error = "Failed to parse WebSocket message"
  /\ ws = "OPEN"
  /\ AllOpenIds(Store) # {}
  /\ btcusdt \in subscribedSymbols

IsPrefix(old, new) == Len(old) <= Len(new) /\ SubSeq(new, 1, Len(old)) = old

\* No position-update frame of an earlier tick follows a trigger-executed frame.
TriggerAfterEarlierUpdates(frames) ==
  \A i, j \in DOMAIN frames :
    (/\ frames[j].type = "trigger-executed"
     /\ frames[i].type = "position-update"
     /\ frames[i].at < frames[j].at) => i < j

\* C22: a tick adds its frames after those a connected client already has, the
\* client gets a trigger-executed frame for every closure of the tick, and in
\* what it has received every position-update frame of an earlier tick
\* precedes the trigger-executed frame.
C22_TriggerAfterUpdates ==
  [][\A c \in ClientIds :
       (clients[c].state = "open" /\ last'.op = "tick" /\ steps' # steps) =>
         /\ IsPrefix(clients[c].frames, clients'[c].frames)
         /\ \A k \in DOMAIN last'.fired :
              \E j \in (Len(clients[c].frames) + 1)..Len(clients'[c].frames) :
                /\ clients'[c].frames[j].type = "trigger-executed"
                /\ clients'[c].frames[j].data = last'.fired[k]
         /\ TriggerAfterEarlierUpdates(clients'[c].frames)]_vars

\* A client has a position-update of one tick and then the trigger-executed
\* frame of a later tick for the same position.
C22_Witness ==
  \E c \in ClientIds : \E i, j \in DOMAIN clients[c].frames :
    /\ i < j
    /\ clients[c].frames[i].type = "position-update"
    /\ clients[c].frames[j].type = "trigger-executed"
    /\ clients[c].frames[i].at < clients[c].frames[j].at
    /\ clients[c].frames[i].id = clients[c].frames[j].data.positionId

\* The rows that are OPEN, read from the table itself.
OpenNow == {i \in DOMAIN positions : positions[i].status = "OPEN"}

\* C23: a session's first frame is connected and its second is initial, with
\* one entry for each position that is OPEN when the session connects and no
\* other entry; connected and initial are sent once, so every other frame comes
\* after them.
C23_ConnectedThenInitial ==
  [][\A c \in ClientIds :
       /\ clients'[c].state # "new" =>
            /\ Len(clients'[c].frames) >= 2
            /\ clients'[c].frames[1].type = "connected"
            /\ clients'[c].frames[2].type = "initial"
            /\ \A i \in DOMAIN clients'[c].frames :
                 i > 2 => clients'[c].frames[i].type \in
                            {"position-update", "trigger-executed", "heartbeat"}
       /\ (clients[c].state = "new" /\ clients'[c].state # "new") =>
            LET data == clients'[c].frames[2].data
            IN /\ {data[i].id : i \in DOMAIN data} = OpenNow
               /\ Len(data) = Cardinality(OpenNow)
               /\ \A i \in DOMAIN data :
                    /\ data[i].symbol = positions[data[i].id].symbol
                    /\ data[i].qty = positions[data[i].id].qty
                    /\ data[i].sl = positions[data[i].id].sl
                    /\ data[i].tp = positions[data[i].id].tp]_vars

\* A session connected while one position was OPEN and another CLOSED, and
\* has since received a frame after its first two.
C23_Witness ==
  \E c \in ClientIds :
    /\ clients[c].state = "open"
    /\ Len(clients[c].frames) >= 3
    /\ Len(clients[c].frames[2].data) = 1
    /\ \E i \in DOMAIN positions : positions[i].status = "CLOSED"

\* C24: the abort of a session detaches its two listeners, stops its
\* heartbeat timer and closes its stream, and leaves every other session as it
\* is; a session that has ended receives no frame and stays ended.
C24_DisconnectReleases ==
  [][\A c \in ClientIds :
       /\ (last'.op = "abort" /\ steps' # steps) =>
            IF c = last'.id
            THEN /\ clients'[c].state = "closed"
                 /\ ~clients'[c].priceUpdate
                 /\ ~clients'[c].triggerExecuted
                 /\ ~clients'[c].heartbeat
                 /\ clients'[c].frames = clients[c].frames
            ELSE clients'[c] = clients[c]
       /\ clients[c].state = "closed" => clients'[c] = clients[c]]_vars

\* One session has ended; the other has received a frame of a tick since,
\* which the ended one has not.
C24_Witness ==
  \E c, d \in ClientIds :
    /\ clients[c].state = "closed"
    /\ clients[d].state = "open"
    /\ last.op = "tick"
    /\ Len(clients[d].frames) > 2
    /\ Len(clients[c].frames) = 2

\* C25: each firing of a session's heartbeat timer sends that session one
\* heartbeat frame and nothing to any other, and a connected session that has
\* received k heartbeats receives one more unless it disconnects.
C25_HeartbeatLiveness ==
  /\ [][(last'.op = "heartbeat" /\ clients' # clients) =>
          \A c \in ClientIds :
            IF c = last'.id
            THEN clients'[c] = [clients[c] EXCEPT !.frames = Append(@, HeartbeatFrame)]
            ELSE clients'[c] = clients[c]]_vars
  /\ \A c \in ClientIds : \A k \in 0..(MaxBeats - 1) :
       (clients[c].state = "open" /\ Beats(c) = k)
         ~> (clients[c].state # "open" \/ Beats(c) > k)

\* A connected session has received its second heartbeat.
C25_Witness ==
  \E c \in ClientIds :
    /\ clients[c].state = "open"
    /\ Beats(c) = 2
    /\ last.op = "heartbeat"

HasFill(id, type) == \E i \in DOMAIN fills : fills[i].positionId = id /\ fills[i].type = type

HasEvent(id, names) == \E i \in DOMAIN events : events[i].positionId = id /\ events[i].event \in names

\* C26: whatever storage errors have occurred, every stored position has its
\* OPEN fill and its POSITION_CREATED event, and every CLOSED position has its
\* CLOSE fill and a terminal event.
C26_AtomicWrites ==
  \A id \in DOMAIN positions :
    /\ HasFill(id, "OPEN")
    /\ HasEvent(id, {"POSITION_CREATED"})
    /\ positions[id].status = "CLOSED" =>
         (HasFill(id, "CLOSE") /\ HasEvent(id, TerminalEvents))

ByIdOps == {"get", "patch", "delete", "close"}

\* C27: a get, an edit, a delete or a manual close of an id that is not in the
\* store answers 404 and leaves positions, fills and events as they were.
C27_UnknownIdNotFound ==
  [][(steps' # steps /\ last'.op \in ByIdOps /\ last'.id \notin DOMAIN positions)
       => (last'.status = 404 /\ <<positions, fills, events>>' = <<positions, fills, events>>)]_vars

\* C28: a settings update succeeds, sets exactly the fields its body has to the
\* values given, and leaves every other field of the settings row as it was.
C28_PartialSettingsUpdate ==
  [][\A body \in SettingsBodies :
       PostSettings(body) =>
         /\ last'.status = 200
         /\ settings' = [settings EXCEPT
                           !.takerFee = IF body.hasTakerFee THEN body.takerFee ELSE @,
                           !.baseBalance = IF body.hasBaseBalance THEN body.baseBalance ELSE @]]_vars

\* The CLOSED positions with a stop loss at a distance from the entry price.
WithRisk ==
  {i \in DOMAIN positions :
     /\ positions[i].status = "CLOSED"
     /\ ~IsNull(positions[i].sl)
     /\ Val(positions[i].sl) # positions[i].entryPrice}

RPerUnit(i) ==
  RDiv(RDiv(positions[i].realizedPnl, positions[i].qty),
       RAbs(RSub(positions[i].entryPrice, Val(positions[i].sl))))

\* C29: the avgRMultiple of a statistics response is the mean of
\* (realizedPnl/qty) / |entryPrice - sl| over the CLOSED positions with a stop
\* loss and non-zero risk, and 0 when there is none.
C29_AvgRMultiple ==
  last.op = "stats" =>
    Val(last.stats).avgRMultiple =
      IF WithRisk = {} THEN Zero
      ELSE RDiv(reduceSum([i \in WithRisk |-> RPerUnit(i)], WithRisk),
                Num(Cardinality(WithRisk)))

\* The OPEN positions of a symbol, whatever the case it was stored in.
OpenOn(rows, symbol) ==
  {i \in DOMAIN rows :
     rows[i].status = "OPEN" /\ toUpperCase(rows[i].symbol) = toUpperCase(symbol)}

\* C30: when a tick for a symbol has been processed and no OPEN position of
\* that symbol is left in the store, the symbol is not in the subscription set.
C30_NoOpenNoSubscription ==
  [][(steps' # steps /\ last'.op = "tick" /\ OpenOn(positions', last'.symbol) = {})
       => toLowerCase(last'.symbol) \notin subscribedSymbols']_vars


\* C31: the closures of one tick are in ascending order of position id.
C31_AscendingClosures ==
  last.op = "tick" =>
    \A i, j \in DOMAIN last.fired :
      i < j => last.fired[i].positionId < last.fired[j].positionId


\* The events a trigger writes.
TriggerEvents == {"SL_TRIGGERED", "TP_TRIGGERED"}

\* C32: each triggerExecuted of a tick is for a position that was OPEN and had
\* no terminal event when the tick arrived, appears once, and carries the
\* event, closePrice and realizedPnl the tick stored for the closure; and a
\* position gets a trigger's terminal event only in a tick that emits for it.
C32_TriggerExecutedOnce ==
  [][/\ (last' # last /\ last'.op = "tick") =>
          \A k \in DOMAIN last'.fired :
            LET f == last'.fired[k]
                id == f.positionId
            IN /\ id \in DOMAIN positions
               /\ positions[id].status = "OPEN"
               /\ TerminalEventsOf(id) = {}
               /\ FiredFor(last'.fired, id) = {k}
               /\ f.event \in TriggerEvents
               /\ id \in DOMAIN positions'
               /\ positions'[id].status = "CLOSED"
               /\ positions'[id].closePrice = Some(f.closePrice)
               /\ positions'[id].realizedPnl = f.realizedPnl
               /\ \E i \in DOMAIN events' :
                    events'[i].positionId = id /\ events'[i].event = f.event
     /\ \A i \in DOMAIN events' :
          (i \notin DOMAIN events /\ events'[i].event \in TriggerEvents) =>
            /\ last'.op = "tick"
            /\ \E k \in DOMAIN last'.fired :
                 /\ last'.fired[k].positionId = events'[i].positionId
                 /\ last'.fired[k].event = events'[i].event]_vars

\* A tick that closes one position of its symbol while another position of
\* the symbol is already CLOSED.
C32_Witness ==
  /\ last.op = "tick"
  /\ Len(last.fired) = 1
  /\ \E id \in DOMAIN positions :
       /\ id # last.fired[1].positionId
       /\ positions[id].status = "CLOSED"
       /\ positions[id].symbol = positions[last.fired[1].positionId].symbol


\* Frames a client received on the step, after those it had.
NewFrames(c) == SubSeq(clients'[c].frames, Len(clients[c].frames) + 1, Len(clients'[c].frames))

\* C33: on a tick where the closure of one position fails in the storage
\* layer, every other OPEN position of the symbol whose SL or TP is hit is
\* closed and emitted for, the tick's priceUpdate is emitted and reaches the
\* sessions attached, and the engine and its socket stay up for later ticks.
C33_FailureIsolation ==
  [][\A symbol \in TickSymbols, markPrice \in Prices, failId \in Ids, fault \in Faults :
       TickStorageError(symbol, markPrice, failId, fault) =>
         /\ \A id \in OpenIdsOf(Store, toUpperCase(symbol)) \ {failId} :
              (SlHolds(positions[id], markPrice) \/ TpHolds(positions[id], markPrice)) =>
                /\ positions'[id].status = "CLOSED"
                /\ positions'[id].closePrice = Some(markPrice)
                /\ FiredFor(last'.fired, id) # {}
         /\ last'.emitted = <<"priceUpdate">>
         /\ \A c \in ClientIds :
              clients[c].priceUpdate =>
                \A id \in DOMAIN positions' :
                  (positions'[id].status = "OPEN" /\ positions'[id].symbol = symbol) =>
                    \E i \in DOMAIN NewFrames(c) :
                      /\ NewFrames(c)[i].type = "position-update"
                      /\ NewFrames(c)[i].id = id
         /\ engineUp' /\ ws' = "OPEN"]_vars

\* A tick on which one closure failed and another position was closed, with a
\* session attached that received the trigger frame.
C33_Witness ==
  /\ last.op = "tick" /\ last.details
  /\ Len(last.fired) = 1
  /\ \E id \in DOMAIN positions :
       /\ id # last.fired[1].positionId
       /\ positions[id].symbol = last.symbol
       /\ SlHolds(positions[id], Val(last.mark))
       /\ CloseFillsOf(id) = {}
  /\ \E c \in ClientIds :
       /\ clients[c].state = "open"
       /\ \E i \in DOMAIN clients[c].frames :
            /\ clients[c].frames[i].type = "trigger-executed"
            /\ clients[c].frames[i].data.positionId = last.fired[1].positionId


\* A session whose listeners are attached to a stream that is no longer open.
Failing(c) == clients[c].priceUpdate /\ clients[c].state # "open"

\* C34: on a tick processed while some session's enqueue throws, every OPEN
\* position of the symbol whose SL or TP is hit is closed and emitted for, and
\* every other attached session receives one trigger-executed frame for each
\* closure and one position-update frame for each position left OPEN, and
\* nothing else; the failing session receives nothing.
C34_StreamIsolation ==
  [][(steps' # steps /\ last'.op = "tick" /\ \E c \in ClientIds : Failing(c)) =>
       LET mark == Val(last'.mark)
           left == {id \in DOMAIN positions' :
                      positions'[id].status = "OPEN" /\ positions'[id].symbol = last'.symbol}
       IN /\ \A id \in OpenIdsOf(Store, toUpperCase(last'.symbol)) :
               (SlHolds(positions[id], mark) \/ TpHolds(positions[id], mark)) =>
                 /\ positions'[id].status = "CLOSED"
                 /\ FiredFor(last'.fired, id) # {}
          /\ \A d \in ClientIds :
               IF Failing(d) THEN clients'[d] = clients[d]
               ELSE clients[d].state = "open" =>
                      /\ Len(NewFrames(d)) = Len(last'.fired) + Cardinality(left)
                      /\ \A k \in DOMAIN last'.fired :
                           /\ NewFrames(d)[k].type = "trigger-executed"
                           /\ NewFrames(d)[k].data = last'.fired[k]
                      /\ \A id \in left :
                           \E i \in DOMAIN NewFrames(d) :
                             /\ NewFrames(d)[i].type = "position-update"
                             /\ NewFrames(d)[i].id = id]_vars

\* A tick that closed a position while the first session's stream was
\* cancelled, and the second session received the closure's frame.
C34_Witness ==
  /\ last.op = "tick"
  /\ Len(last.fired) = 1
  /\ clients[1].state = "cancelled" /\ clients[1].priceUpdate
  /\ clients[2].state = "open"
  /\ Len(clients[2].frames) >= 3
  /\ clients[2].frames[Len(clients[2].frames)].type = "trigger-executed"
  /\ clients[2].frames[Len(clients[2].frames)].data = last.fired[1]


\* C35: once startup recovery has run, and unless the feed has been closed,
\* the lower-case symbol of every OPEN position is in the subscription set.
C35_OpenIsMonitored ==
  (boot = "done" /\ ~isIntentionallyClosed) => OpenSymbols \subseteq subscribedSymbols


\* C36: in the frames of a session, no position-update of a position comes
\* after the trigger-executed frame of that position.
C36_NoUpdateAfterTrigger ==
  \A c \in ClientIds :
    \A i, j \in DOMAIN clients[c].frames :
      (i < j /\ clients[c].frames[i].type = "trigger-executed"
             /\ clients[c].frames[j].type = "position-update") =>
        clients[c].frames[j].id # clients[c].frames[i].data.positionId

\* A session that saw a position updated, then closed by a trigger, and then
\* another position of the symbol updated on the closing tick.
C36_Witness ==
  \E c \in ClientIds :
    \E i, j, k \in DOMAIN clients[c].frames :
      LET frames == clients[c].frames
      IN /\ i < j /\ j < k
         /\ frames[i].type = "position-update"
         /\ frames[j].type = "trigger-executed"
         /\ frames[j].data.positionId = frames[i].id
         /\ frames[k].type = "position-update"
         /\ frames[k].id # frames[i].id
         /\ frames[k].at = frames[j].at


EditEvents == {"SL_UPDATED", "TP_UPDATED"}

\* The edits of a position that carried sl, and those that carried tp.
SlEdits(id) ==
  {i \in DOMAIN events :
     events[i].positionId = id /\ events[i].event \in EditEvents /\ events[i].payload.hasSl}

TpEdits(id) ==
  {i \in DOMAIN events :
     events[i].positionId = id /\ events[i].event \in EditEvents /\ events[i].payload.hasTp}

Latest(edits) == CHOOSE i \in edits : \A j \in edits : j <= i

FiredWith(fired, id, event) ==
  \E k \in DOMAIN fired : fired[k].positionId = id /\ fired[k].event = event

\* A step that processes a tick.
TickStep == steps' # steps /\ now' = now /\ last'.op = "tick"

\* C37: a tick is evaluated against the sl and tp of the latest edit.  For an
\* OPEN position of the tick's symbol whose sl was edited: set to null, the
\* tick fires no SL_TRIGGERED for it; set to a level, it fires SL_TRIGGERED
\* exactly when the level is hit by the tick's mark price.  The same for tp,
\* which fires when its level is hit and the SL did not fire.
C37_EditTakesEffect ==
  [][TickStep =>
       \A id \in OpenIdsOf(Store, toUpperCase(last'.symbol)) :
         LET mark == Val(last'.mark)
             side == positions[id].side
         IN /\ SlEdits(id) # {} =>
                 LET sl == events[Latest(SlEdits(id))].payload.sl
                 IN FiredWith(last'.fired, id, "SL_TRIGGERED")
                      <=> SlHolds([side |-> side, sl |-> sl], mark)
            /\ TpEdits(id) # {} =>
                 LET tp == events[Latest(TpEdits(id))].payload.tp
                 IN /\ FiredWith(last'.fired, id, "TP_TRIGGERED")
                         => TpHolds([side |-> side, tp |-> tp], mark)
                    /\ (TpHolds([side |-> side, tp |-> tp], mark)
                          /\ ~FiredWith(last'.fired, id, "SL_TRIGGERED"))
                         => FiredWith(last'.fired, id, "TP_TRIGGERED")]_vars

\* A tick after two edits: a position whose sl was set to null, and whose old
\* sl the mark price hits, is closed by its TP, and a position whose sl was
\* set to a level is closed by SL_TRIGGERED at that level.
C37_Witness ==
  /\ last.op = "tick"
  /\ \E a, b \in DOMAIN positions :
       /\ a # b
       /\ SlEdits(a) # {} /\ IsNull(positions[a].sl)
       /\ \E i \in DOMAIN events :
            /\ events[i].positionId = a /\ events[i].event = "POSITION_CREATED"
            /\ i < Latest(SlEdits(a))
       /\ FiredWith(last.fired, a, "TP_TRIGGERED")
       /\ SlEdits(b) # {} /\ positions[b].sl = last.mark
       /\ FiredWith(last.fired, b, "SL_TRIGGERED")


TriggerFramesIn(frames) == {i \in DOMAIN frames : frames[i].type = "trigger-executed"}

SessionOps == {"stream", "abort"}

\* C38: on a tick every connected session receives each triggerExecuted event
\* of the tick in exactly one trigger-executed frame, and a session that is
\* not connected receives none; a connect or a disconnect of one session
\* leaves every other session and its frames as they were.
C38_ExactlyOncePerClient ==
  [][/\ (steps' # steps /\ last'.op = "tick") =>
          \A c \in ClientIds :
            IF clients[c].state = "open"
            THEN /\ Cardinality(TriggerFramesIn(NewFrames(c))) = Len(last'.fired)
                 /\ \A k \in DOMAIN last'.fired :
                      Cardinality({i \in TriggerFramesIn(NewFrames(c)) :
                                     NewFrames(c)[i].data = last'.fired[k]}) = 1
            ELSE clients'[c] = clients[c]
     /\ (steps' # steps /\ last'.op \in SessionOps) =>
          \A c \in ClientIds \ {last'.id} : clients'[c] = clients[c]]_vars

\* Two connected sessions, each with the one frame of the one closure.
C38_Witness ==
  /\ last.op = "tick"
  /\ Len(last.fired) = 1
  /\ \A c \in ClientIds :
       /\ clients[c].state = "open"
       /\ Cardinality(TriggerFramesIn(clients[c].frames)) = 1
       /\ \E i \in TriggerFramesIn(clients[c].frames) : clients[c].frames[i].data = last.fired[1]

\* C39: in every reachable state of the feed there is at most one live socket
\* and at most one pending reconnect timer, no reconnect timer is pending
\* while the session is OPEN, and the ping timer runs exactly while the
\* session is OPEN: one is started per OPEN session, and it is stopped on
\* every session loss and on close().
LiveSocket == ws \in {"CONNECTING", "OPEN"}

\* The state part: timers against the state of the session.
TimersMatchSession ==
  /\ (ws = "OPEN" => IsNull(reconnectTimeout))
  /\ (pingInterval <=> ws = "OPEN")
  /\ (~IsNull(reconnectTimeout) => ~LiveSocket)
  \* a socket that close() has dropped is never beside a live one
  /\ ~(detached /\ LiveSocket)

C39_OneSocketOneTimer ==
  [][/\ TimersMatchSession
     /\ TimersMatchSession'
     \* connect() puts a socket in place of none or of a closed one only
     /\ (ReconnectTimer /\ ws # "OPEN") => ~LiveSocket
     \* scheduleReconnect sets a timer only when none is pending
     /\ ((WsClose \/ DetachedClose) /\ ~IsNull(reconnectTimeout')) => IsNull(reconnectTimeout)
     \* startPingInterval runs only when no ping timer does
     /\ WsOpen => ~pingInterval
     \* a lost session and close() leave no ping timer and no live socket
     /\ (WsClose \/ DetachedClose \/ Close) => (~pingInterval' /\ ~LiveSocket')]_vars

\* A second connection attempt made by the reconnect timer after two losses.
C39_Witness ==
  /\ last.op = "reconnect"
  /\ ws = "CONNECTING"
  /\ reconnectAttempts = 2
  /\ IsNull(reconnectTimeout)
  /\ ~pingInterval

====
